---- MODULE Spec2Model ----
(***************************************************************************)
(* Model of the match aggregations of src/code/queries.py (SoccerQueries) *)
(* over the `matches` collection written by src/code/data_loader.py.       *)
(*                                                                         *)
(* The collection is a sequence of match documents in insertion (natural)  *)
(* order.  Every aggregation is an operator over that sequence, built      *)
(* stage by stage as the pipeline in the source is.  A call that reads the *)
(* store once is one action; a call that reads it several times            *)
(* (query_7, query_8 and the handlers that call query_8) is one action per *)
(* read, so that a writer can act between two reads of a call.             *)
(***************************************************************************)
EXTENDS Integers, Sequences, FiniteSets, TLC

VARIABLES matches, players, player_attributes, source, loader, callers, call, ret

vars == <<matches, players, player_attributes, source, loader, callers, call, ret>>

----------------------------------------------------------------------------
(* Bounds of the model *)

NumTeams == 2
NumSeasons == 2
NumLeagues == 2
MaxGoal == 1
MaxMatches == 2
LeagueTeams == 3
LeagueSeasons == 1
LeagueMatches == 3
ScoreGoal == 2
ScoreMatches == 3
MaxLimit == 3
NumPlayers == 2
NumNames == 2
MaxSnapshots == 3
TopRating == 2
MaxDate == 2
NumCallers == 2
(* load_matches inserts in batches of 1000; the model scales the batch down *)
batch_size == 2
MaxRows == 4
ConcurrentMatches == 2

(* A goal count that is absent: the loader stores the SQLite NULL as it is *)
Null == -1

Teams == 1..NumTeams
Seasons == 1..NumSeasons
Leagues == 1..NumLeagues
GoalValues == (0..MaxGoal) \cup {Null}

(* One document of db.matches, reduced to the fields the queries read *)
MatchDocs ==
    [home_team_name : Teams, away_team_name : Teams,
     home_team_goal : GoalValues, away_team_goal : GoalValues,
     season : Seasons, league_name : Leagues]

Stores == UNION {[1..n -> MatchDocs] : n \in 0..MaxMatches}

(* The documents of a regular fixture list: two different teams and both *)
(* goal counts present                                                    *)
LeagueDocs ==
    {m \in [home_team_name : 1..LeagueTeams, away_team_name : 1..LeagueTeams,
            home_team_goal : 0..MaxGoal, away_team_goal : 0..MaxGoal,
            season : 1..LeagueSeasons, league_name : Leagues] :
        m.home_team_name # m.away_team_name}

LeagueStores == UNION {[1..n -> LeagueDocs] : n \in 0..LeagueMatches}

(* Python's None *)
None == [none |-> TRUE]

----------------------------------------------------------------------------
(* BSON comparison and accumulation, as the aggregation operators apply it *)

(* $gt: null sorts before every number *)
BsonGt(a, b) == IF a = Null THEN FALSE ELSE IF b = Null THEN TRUE ELSE a > b

(* $lt *)
BsonLt(a, b) == BsonGt(b, a)

(* $eq *)
BsonEq(a, b) == a = b

(* the value $sum adds for one operand: a non-numeric operand is ignored *)
SumOperand(a) == IF a = Null THEN 0 ELSE a

(* {'$cond': [c, 1, 0]} *)
Cond(c) == IF c THEN 1 ELSE 0

RECURSIVE SumSeq(_)
SumSeq(s) == IF s = <<>> THEN 0 ELSE Head(s) + SumSeq(Tail(s))

----------------------------------------------------------------------------
(* query_2_team_season_record *)

(* the $match stage *)
Match2(M, team_name, season) ==
    SelectSeq(M, LAMBDA m : /\ m.season = season
                            /\ \/ m.home_team_name = team_name
                               \/ m.away_team_name = team_name)

WinCond(m, team_name) ==
    \/ /\ m.home_team_name = team_name
       /\ BsonGt(m.home_team_goal, m.away_team_goal)
    \/ /\ m.away_team_name = team_name
       /\ BsonGt(m.away_team_goal, m.home_team_goal)

(* the loss condition with its home arm alone *)
LossCond_HomeOnly(m, team_name) ==
    /\ m.home_team_name = team_name
    /\ BsonLt(m.home_team_goal, m.away_team_goal)

LossCond(m, team_name) ==
    \/ /\ m.home_team_name = team_name
       /\ BsonLt(m.home_team_goal, m.away_team_goal)
    \/ /\ m.away_team_name = team_name
       /\ BsonLt(m.away_team_goal, m.home_team_goal)

DrawCond(m) == BsonEq(m.home_team_goal, m.away_team_goal)

GoalsFor(m, team_name) ==
    IF m.home_team_name = team_name THEN m.home_team_goal ELSE m.away_team_goal

GoalsAgainst(m, team_name) ==
    IF m.home_team_name = team_name THEN m.away_team_goal ELSE m.home_team_goal

(* the $group stage over a non-empty input: one document *)
Group2(ms, team_name) ==
    [total_matches  |-> Len(ms),
     wins           |-> SumSeq([i \in 1..Len(ms) |-> Cond(WinCond(ms[i], team_name))]),
     losses         |-> SumSeq([i \in 1..Len(ms) |-> Cond(LossCond(ms[i], team_name))]),
     draws          |-> SumSeq([i \in 1..Len(ms) |-> Cond(DrawCond(ms[i]))]),
     goals_scored   |-> SumSeq([i \in 1..Len(ms) |-> SumOperand(GoalsFor(ms[i], team_name))]),
     goals_conceded |-> SumSeq([i \in 1..Len(ms) |-> SumOperand(GoalsAgainst(ms[i], team_name))])]

(* the $project stage with a win worth two points *)
Project2_TwoPointWin(g, team_name, season) ==
    [team            |-> team_name,
     season          |-> season,
     matches_played  |-> g.total_matches,
     wins            |-> g.wins,
     draws           |-> g.draws,
     losses          |-> g.losses,
     goals_scored    |-> g.goals_scored,
     goals_conceded  |-> g.goals_conceded,
     goal_difference |-> g.goals_scored - g.goals_conceded,
     points          |-> g.wins * 2 + g.draws]

(* the $project stage *)
Project2(g, team_name, season) ==
    [team            |-> team_name,
     season          |-> season,
     matches_played  |-> g.total_matches,
     wins            |-> g.wins,
     draws           |-> g.draws,
     losses          |-> g.losses,
     goals_scored    |-> g.goals_scored,
     goals_conceded  |-> g.goals_conceded,
     goal_difference |-> g.goals_scored - g.goals_conceded,
     points          |-> g.wins * 3 + g.draws]

(* the lookup that answers an empty selection with a zeroed record *)
query_2_ZeroedRecord(M, team_name, season) ==
    Project2(Group2(Match2(M, team_name, season), team_name), team_name, season)

query_2_team_season_record(M, team_name, season) ==
    LET ms == Match2(M, team_name, season)
    IN  IF ms = <<>> THEN None
        ELSE Project2(Group2(ms, team_name), team_name, season)

----------------------------------------------------------------------------
(* query_8_league_standings *)

RECURSIVE Dedup(_)
(* the values of a sequence, each once, in the order of first occurrence *)
Dedup(s) ==
    IF s = <<>> THEN <<>>
    ELSE LET rest == Dedup(SelectSeq(Tail(s), LAMBDA v : v # Head(s)))
         IN  <<Head(s)>> \o rest

(* the orders in which the server may hand over documents whose order   *)
(* the query does not fix: every order                                    *)
Arrangements(s) ==
    {[i \in 1..Len(s) |-> s[p[i]]] : p \in Permutations(1..Len(s))}

(* db.matches.distinct('home_team_name', {league_name, season}): the home   *)
(* names of the documents that pass the filter, each once; the server      *)
(* fixes no order for them, so the call can return them in any order       *)
DistinctHomeTeams(M, league_name, season) ==
    LET ms == SelectSeq(M, LAMBDA m : /\ m.league_name = league_name
                                      /\ m.season = season)
    IN  Arrangements(Dedup([i \in 1..Len(ms) |-> ms[i].home_team_name]))

RECURSIVE Records8(_, _, _)
(* the loop over teams: the records that are not None, in team order *)
Records8(M, teams, season) ==
    IF teams = <<>> THEN <<>>
    ELSE LET record == query_2_team_season_record(M, Head(teams), season)
             rest   == Records8(M, Tail(teams), season)
         IN  IF record # None THEN <<record>> \o rest ELSE rest

(* the sort key: (points, goal_difference), compared as Python tuples *)
KeyLess(a, b) ==
    \/ a.points < b.points
    \/ /\ a.points = b.points
       /\ a.goal_difference < b.goal_difference

RECURSIVE InsertDesc(_, _)
(* x placed after every element whose key is not less than its own *)
InsertDesc(sorted, x) ==
    IF sorted = <<>> THEN <<x>>
    ELSE IF KeyLess(Head(sorted), x) THEN <<x>> \o sorted
         ELSE <<Head(sorted)>> \o InsertDesc(Tail(sorted), x)

RECURSIVE SortStandings(_)
(* list.sort(key=..., reverse=True): descending and stable *)
SortStandings(s) ==
    IF s = <<>> THEN <<>>
    ELSE InsertDesc(SortStandings(SubSeq(s, 1, Len(s) - 1)), s[Len(s)])

(* positions counted from 0, as enumerate(standings) gives them *)
AddPosition_FromZero(standings) ==
    [i \in 1..Len(standings) |->
        [team            |-> standings[i].team,
         season          |-> standings[i].season,
         matches_played  |-> standings[i].matches_played,
         wins            |-> standings[i].wins,
         draws           |-> standings[i].draws,
         losses          |-> standings[i].losses,
         goals_scored    |-> standings[i].goals_scored,
         goals_conceded  |-> standings[i].goals_conceded,
         goal_difference |-> standings[i].goal_difference,
         points          |-> standings[i].points,
         position        |-> i - 1]]

(* team_record['position'] = i for enumerate(standings, 1) *)
AddPosition(standings) ==
    [i \in 1..Len(standings) |->
        [team            |-> standings[i].team,
         season          |-> standings[i].season,
         matches_played  |-> standings[i].matches_played,
         wins            |-> standings[i].wins,
         draws           |-> standings[i].draws,
         losses          |-> standings[i].losses,
         goals_scored    |-> standings[i].goals_scored,
         goals_conceded  |-> standings[i].goals_conceded,
         goal_difference |-> standings[i].goal_difference,
         points          |-> standings[i].points,
         position        |-> i]]

(* the tables a call can return: one for each order in which distinct   *)
(* can list the teams                                                     *)
query_8_league_standings(M, league_name, season) ==
    {AddPosition(SortStandings(Records8(M, teams, season))) :
        teams \in DistinctHomeTeams(M, league_name, season)}

----------------------------------------------------------------------------
(* query_9_head_to_head *)

(* the $match stage with the first arrangement only *)
Match9_HomeFirstOnly(M, team1, team2) ==
    SelectSeq(M, LAMBDA m : /\ m.home_team_name = team1
                            /\ m.away_team_name = team2)

(* the $match stage *)
Match9(M, team1, team2) ==
    SelectSeq(M, LAMBDA m : \/ /\ m.home_team_name = team1
                               /\ m.away_team_name = team2
                            \/ /\ m.home_team_name = team2
                               /\ m.away_team_name = team1)

(* the $group stage over a non-empty input; its win conditions are those of *)
(* query_2 written out once for team1 and once for team2                    *)
Group9(ms, team1, team2) ==
    [total_matches |-> Len(ms),
     team1_wins    |-> SumSeq([i \in 1..Len(ms) |-> Cond(WinCond(ms[i], team1))]),
     team2_wins    |-> SumSeq([i \in 1..Len(ms) |-> Cond(WinCond(ms[i], team2))]),
     draws         |-> SumSeq([i \in 1..Len(ms) |-> Cond(DrawCond(ms[i]))])]

(* the $project stage *)
Project9(g, team1, team2) ==
    [team1         |-> team1,
     team2         |-> team2,
     total_matches |-> g.total_matches,
     team1_wins    |-> g.team1_wins,
     team2_wins    |-> g.team2_wins,
     draws         |-> g.draws]

query_9_head_to_head(M, team1, team2) ==
    LET ms == Match9(M, team1, team2)
    IN  IF ms = <<>> THEN None
        ELSE Project9(Group9(ms, team1, team2), team1, team2)

----------------------------------------------------------------------------
(* State machine: a store of matches and the calls made on it *)

NoCall == [op |-> "none", x |-> 0, y |-> 0]

(* a request parameter that is not given: request.args.get returns None *)
Absent == 0

(* the call a handler makes to the query layer, None when it makes none *)
QueryCall(op, x, y) == [op |-> op, x |-> x, y |-> y]

(* the season get_league_top_teams takes when the request names none:     *)
(* '2015/2016'                                                            *)
DefaultSeason == 2

(* standings[:5], matches[:20] *)
FirstN(rows, n) == SubSeq(rows, 1, IF n < Len(rows) THEN n ELSE Len(rows))

(* what get_league_top_teams answers once query_8 has returned standings *)
TopTeamsResponse(league_name, season, standings) ==
    [status |-> 200,
     body   |-> [league_name |-> league_name, season |-> season,
                 top_teams |-> FirstN(standings, 5)],
     query  |-> QueryCall("query_8", league_name, season)]

(* what get_league_standings answers once query_8 has returned standings *)
StandingsResponse(league_name, season, standings) ==
    [status |-> 200,
     body   |-> [league_name |-> league_name, season |-> season,
                 standings |-> standings],
     query  |-> QueryCall("query_8", league_name, season)]

(* the loader not started *)
LoaderIdle == [pc |-> "idle", next |-> 1, players |-> <<>>, matches |-> <<>>,
               attributes |-> <<>>, count |-> 0, returned |-> Null]

(* a caller that has no call in progress.  A caller keeps the arguments   *)
(* and the local variables of its call: teams, standings of query_8,     *)
(* seasons, the date range and trend_data of query_7, and the handler     *)
(* that made the call, if one did, with the season of its request.  next  *)
(* is the place in the loop of the call.  seen and seen_attributes are    *)
(* the contents of db.matches and of db.player_attributes that the reads  *)
(* of the call have met.                                                  *)
CallerIdle == [pc |-> "idle", op |-> "none", handler |-> "none", season_arg |-> 0,
               league_name |-> 0, season |-> 0, teams |-> <<>>, standings |-> <<>>,
               team_name |-> 0, seasons |-> <<>>, range |-> None, trend_data |-> <<>>,
               raised |-> "", next |-> 1, seen |-> {}, seen_attributes |-> {}]

Callers == 1..NumCallers

(* a SQLite database without rows *)
NoSource == [Match |-> <<>>, Player |-> <<>>, Player_Attributes |-> <<>>]

NoLoad ==
    /\ source = NoSource
    /\ loader = LoaderIdle
    /\ callers = [c \in Callers |-> CallerIdle]

Init ==
    /\ matches \in Stores
    /\ players = <<>>
    /\ player_attributes = <<>>
    /\ NoLoad
    /\ call = NoCall
    /\ ret = None

Query2(team_name, season) ==
    /\ call' = [op |-> "query_2", x |-> team_name, y |-> season]
    /\ ret' = query_2_team_season_record(matches, team_name, season)
    /\ callers[1].pc \in {"idle", "done"}
    /\ callers' = [callers EXCEPT ![1] = CallerIdle]
    /\ UNCHANGED <<matches, players, player_attributes, source, loader>>

(* query_8_league_standings, read by read: the store may change between  *)
(* two reads of a call.  call and ret are the call that returned last and *)
(* what it returned; they are cleared when a call starts.                 *)

(* the first read: distinct('home_team_name', ...) *)
StartStandings(c, league_name, season) ==
    /\ callers[c].pc \in {"idle", "done"}
    /\ \E teams \in DistinctHomeTeams(matches, league_name, season) :
           callers' = [callers EXCEPT ![c] =
               [CallerIdle EXCEPT !.pc = "teams", !.op = "query_8",
                                  !.league_name = league_name, !.season = season,
                                  !.teams = teams, !.seen = {matches}]]
    /\ call' = NoCall
    /\ ret' = None
    /\ UNCHANGED <<matches, players, player_attributes, source, loader>>

(* one turn of the loop, as it would be if the list of records belonged   *)
(* to the shared handle and not to the call                               *)
ReadRecord_SharedStandings(c) ==
    /\ callers[c].pc = "teams"
    /\ callers[c].next <= Len(callers[c].teams)
    /\ LET record == query_2_team_season_record(
                         matches, callers[c].teams[callers[c].next], callers[c].season)
       IN  callers' = [d \in Callers |->
               [callers[d] EXCEPT
                   !.standings = IF record # None /\ callers[d].pc = "teams"
                                 THEN Append(callers[d].standings, record)
                                 ELSE callers[d].standings,
                   !.next = IF d = c THEN callers[d].next + 1 ELSE callers[d].next,
                   !.seen = IF d = c THEN callers[d].seen \cup {matches}
                            ELSE callers[d].seen]]
    /\ UNCHANGED <<matches, players, player_attributes, source, loader, call, ret>>

(* one turn of the loop: the record of the next team is read from the     *)
(* store as it is now, and kept if it is not None                         *)
ReadRecord(c) ==
    /\ callers[c].pc = "teams"
    /\ callers[c].next <= Len(callers[c].teams)
    /\ LET record == query_2_team_season_record(
                         matches, callers[c].teams[callers[c].next], callers[c].season)
       IN  callers' = [callers EXCEPT ![c] =
               [callers[c] EXCEPT
                   !.standings = IF record # None
                                 THEN Append(callers[c].standings, record)
                                 ELSE callers[c].standings,
                   !.next = callers[c].next + 1,
                   !.seen = callers[c].seen \cup {matches}]]
    /\ UNCHANGED <<matches, players, player_attributes, source, loader, call, ret>>

(* the return as it would be if a table without rows were signalled as    *)
(* NotFound                                                               *)
FinishStandings_NotFound(c) ==
    /\ callers[c].pc = "teams"
    /\ callers[c].next > Len(callers[c].teams)
    /\ LET standings == AddPosition(SortStandings(callers[c].standings))
       IN  /\ callers' = [callers EXCEPT ![c] =
                  [callers[c] EXCEPT !.pc = "done",
                                     !.standings = standings,
                                     !.seen = callers[c].seen \cup {matches}]]
           /\ call' = IF callers[c].handler = "none"
                      THEN [op |-> "query_8", x |-> callers[c].league_name,
                            y |-> callers[c].season]
                      ELSE [op |-> callers[c].handler, x |-> callers[c].league_name,
                            y |-> callers[c].season_arg]
           /\ ret' = IF callers[c].handler = "none"
                     THEN (IF standings = <<>> THEN None ELSE standings)
                     ELSE IF callers[c].handler = "get_league_top_teams"
                     THEN TopTeamsResponse(callers[c].league_name, callers[c].season,
                                           standings)
                     ELSE StandingsResponse(callers[c].league_name, callers[c].season,
                                            standings)
    /\ UNCHANGED <<matches, players, player_attributes, source, loader>>

(* after the loop: the sort, the positions and the return; a handler that *)
(* made the call answers with the table                                   *)
FinishStandings(c) ==
    /\ callers[c].pc = "teams"
    /\ callers[c].next > Len(callers[c].teams)
    /\ LET standings == AddPosition(SortStandings(callers[c].standings))
       IN  /\ callers' = [callers EXCEPT ![c] =
                  [callers[c] EXCEPT !.pc = "done",
                                     !.standings = standings,
                                     !.seen = callers[c].seen \cup {matches}]]
           /\ call' = IF callers[c].handler = "none"
                      THEN [op |-> "query_8", x |-> callers[c].league_name,
                            y |-> callers[c].season]
                      ELSE [op |-> callers[c].handler, x |-> callers[c].league_name,
                            y |-> callers[c].season_arg]
           /\ ret' = IF callers[c].handler = "none" THEN standings
                     ELSE IF callers[c].handler = "get_league_top_teams"
                     THEN TopTeamsResponse(callers[c].league_name, callers[c].season,
                                           standings)
                     ELSE StandingsResponse(callers[c].league_name, callers[c].season,
                                            standings)
    /\ UNCHANGED <<matches, players, player_attributes, source, loader>>

Query9(team1, team2) ==
    /\ call' = [op |-> "query_9", x |-> team1, y |-> team2]
    /\ ret' = query_9_head_to_head(matches, team1, team2)
    /\ callers[1].pc \in {"idle", "done"}
    /\ callers' = [callers EXCEPT ![1] = CallerIdle]
    /\ UNCHANGED <<matches, players, player_attributes, source, loader>>

Next ==
    \/ \E t \in Teams, s \in Seasons : Query2(t, s)
    \/ \E l \in Leagues, s \in Seasons : StartStandings(1, l, s)
    \/ ReadRecord(1)
    \/ FinishStandings(1)
    \/ \E t1 \in Teams, t2 \in Teams : Query9(t1, t2)

Spec == Init /\ [][Next]_vars

(* The standings calls on the stores of regular fixture lists *)
InitLeague ==
    /\ matches \in LeagueStores
    /\ players = <<>>
    /\ player_attributes = <<>>
    /\ NoLoad
    /\ call = NoCall
    /\ ret = None

NextLeague ==
    \/ \E l \in Leagues, s \in 1..LeagueSeasons : StartStandings(1, l, s)
    \/ ReadRecord(1)
    \/ FinishStandings(1)

SpecLeague == InitLeague /\ [][NextLeague]_vars

----------------------------------------------------------------------------
(* Vocabulary of the properties *)

(* the team names of the rows of a standings table *)
RowTeams(rows) == {rows[i].team : i \in 1..Len(rows)}

(* a row of a standings table without its position *)
RowRecord(r) ==
    [team            |-> r.team,
     season          |-> r.season,
     matches_played  |-> r.matches_played,
     wins            |-> r.wins,
     draws           |-> r.draws,
     losses          |-> r.losses,
     goals_scored    |-> r.goals_scored,
     goals_conceded  |-> r.goals_conceded,
     goal_difference |-> r.goal_difference,
     points          |-> r.points]

(* the matches of the store, by index, that belong to a league and season *)
LeagueSeasonMatches(league_name, season) ==
    {i \in 1..Len(matches) : /\ matches[i].league_name = league_name
                             /\ matches[i].season = season}

(* both goal counts of a match are present *)
GoalsPresent(m) == m.home_team_goal # Null /\ m.away_team_goal # Null

(* team played on a side of m and that side scored strictly more *)
OwnSideScoredMore(m, team) ==
    /\ GoalsPresent(m)
    /\ \/ m.home_team_name = team /\ m.home_team_goal > m.away_team_goal
       \/ m.away_team_name = team /\ m.away_team_goal > m.home_team_goal

(* team played on a side of m and that side scored strictly fewer *)
OwnSideScoredFewer(m, team) ==
    /\ GoalsPresent(m)
    /\ \/ m.home_team_name = team /\ m.home_team_goal < m.away_team_goal
       \/ m.away_team_name = team /\ m.away_team_goal < m.home_team_goal

(* both sides of m scored the same *)
SidesScoredSame(m) == GoalsPresent(m) /\ m.home_team_goal = m.away_team_goal

(* every match of the store has both goal counts *)
AllGoalsPresent == \A i \in 1..Len(matches) : GoalsPresent(matches[i])

(* no match of the store has the same team on both sides *)
NoSelfMatches ==
    \A i \in 1..Len(matches) : matches[i].home_team_name # matches[i].away_team_name

(* the matches of the store, by index, that team played in a season *)
TeamSeasonMatches(team, season) ==
    {i \in 1..Len(matches) : /\ matches[i].season = season
                             /\ \/ matches[i].home_team_name = team
                                \/ matches[i].away_team_name = team}

----------------------------------------------------------------------------
(* C1: query_8_league_standings(L, S) ranks every team that is the home   *)
(* side or the away side of at least one match of league L and season S.  *)
C1_RanksHomeAndAwayTeams ==
    call.op = "query_8" =>
        \A i \in LeagueSeasonMatches(call.x, call.y) :
            /\ matches[i].home_team_name \in RowTeams(ret)
            /\ matches[i].away_team_name \in RowTeams(ret)

(* C2: every row of query_8_league_standings(L, S) is computed from the   *)
(* matches of league L and season S only: a further match of the same     *)
(* season in another league changes no field of any row.                  *)
C2_OtherLeagueChangesNoRow ==
    call.op = "query_8" =>
        \A m \in LeagueDocs :
            (m.season = call.y /\ m.league_name # call.x) =>
                \A after \in query_8_league_standings(Append(matches, m), call.x, call.y) :
                    \A i \in 1..Len(ret) :
                        ret[i].team \in {m.home_team_name, m.away_team_name} =>
                            \E j \in 1..Len(after) :
                                RowRecord(after[j]) = RowRecord(ret[i])

(* C3: a record returned by query_2_team_season_record has                *)
(* matches_played = wins + draws + losses, whatever teams and goal counts *)
(* the matches carry.  Stated for the stores in which every goal count   *)
(* is present, where the tallies compare numbers only.                    *)
C3_PlayedIsWinsDrawsLosses ==
    (call.op = "query_2" /\ ret # None /\ AllGoalsPresent) =>
        ret.matches_played = ret.wins + ret.draws + ret.losses

(* C4: a record returned by query_2_team_season_record, and every row of  *)
(* query_8_league_standings, has goal_difference = goals_scored -         *)
(* goals_conceded and points = 3 * wins + draws.                          *)
DerivedFieldsHold(r) ==
    /\ r.goal_difference = r.goals_scored - r.goals_conceded
    /\ r.points = 3 * r.wins + r.draws

C4_DerivedFields ==
    /\ (call.op = "query_2" /\ ret # None) => DerivedFieldsHold(ret)
    /\ call.op = "query_8" => \A i \in 1..Len(ret) : DerivedFieldsHold(ret[i])

(* a record with a win and a draw, goals on both sides, from a store of   *)
(* two regular matches                                                     *)
C4_Witness ==
    /\ call.op = "query_2"
    /\ AllGoalsPresent
    /\ NoSelfMatches
    /\ ret # None
    /\ ret.wins = 1
    /\ ret.draws = 1
    /\ ret.goals_scored = 2
    /\ ret.goals_conceded = 1
    /\ ret.points = 4

(* C5: query_2_team_season_record(T, S) counts a match of season S as a   *)
(* win for T exactly when T's own side scored strictly more goals, as a   *)
(* loss exactly when it scored strictly fewer and as a draw exactly when  *)
(* both sides scored the same; goals_scored and goals_conceded are the    *)
(* sums of the goals of T's side and of the opposing side.  Stated for   *)
(* the stores in which no match has the same team on both sides, where    *)
(* T's own side is one side.                                               *)
C5_TalliesFromOwnSide ==
    (call.op = "query_2" /\ ret # None /\ NoSelfMatches) =>
        LET ms == TeamSeasonMatches(call.x, call.y)
        IN  /\ ret.wins = Cardinality({i \in ms : OwnSideScoredMore(matches[i], call.x)})
            /\ ret.losses = Cardinality({i \in ms : OwnSideScoredFewer(matches[i], call.x)})
            /\ ret.draws = Cardinality({i \in ms : SidesScoredSame(matches[i])})
            /\ ret.goals_scored =
                   SumSeq([i \in 1..Len(matches) |->
                       IF i \in ms THEN SumOperand(GoalsFor(matches[i], call.x)) ELSE 0])
            /\ ret.goals_conceded =
                   SumSeq([i \in 1..Len(matches) |->
                       IF i \in ms THEN SumOperand(GoalsAgainst(matches[i], call.x)) ELSE 0])

(* C6: the rows of query_8_league_standings are non-increasing in the key *)
(* (points, goal_difference, goals_scored), compared lexicographically.   *)
Key3NotLess(r, s) ==
    \/ r.points > s.points
    \/ /\ r.points = s.points
       /\ \/ r.goal_difference > s.goal_difference
          \/ /\ r.goal_difference = s.goal_difference
             /\ r.goals_scored >= s.goals_scored

C6_NonIncreasingInThreeKeys ==
    call.op = "query_8" =>
        \A i \in 1..(Len(ret) - 1) : Key3NotLess(ret[i], ret[i + 1])

(* C7: query_8_league_standings is deterministic: rows equal on points,   *)
(* goal difference and goals scored are in ascending order of team name,  *)
(* and a store that holds the same matches in another order gives the     *)
(* same standings.                                                         *)
Key3Equal(r, s) ==
    /\ r.points = s.points
    /\ r.goal_difference = s.goal_difference
    /\ r.goals_scored = s.goals_scored

Reordered(M, p) == [i \in 1..Len(M) |-> M[p[i]]]

C7_SameStandingsInAnyStoreOrder ==
    call.op = "query_8" =>
        /\ \A i \in 1..(Len(ret) - 1) :
               Key3Equal(ret[i], ret[i + 1]) => ret[i].team < ret[i + 1].team
        /\ \A p \in Permutations(1..Len(matches)) :
               query_8_league_standings(Reordered(matches, p), call.x, call.y) = {ret}

(* C8: the i-th row of query_8_league_standings has position i: positions *)
(* start at 1 and are consecutive, and rows tied on the sort key do not   *)
(* share a position.                                                       *)
C8_PositionIsIndex ==
    call.op = "query_8" =>
        \A i \in 1..Len(ret) : ret[i].position = i

(* a table of three rows, the first two tied on the sort key *)
C8_Witness ==
    /\ call.op = "query_8"
    /\ Len(ret) = 3
    /\ ret[1].points = ret[2].points
    /\ ret[1].goal_difference = ret[2].goal_difference
    /\ ret[3].points < ret[2].points

(* C9: a record returned by query_9_head_to_head has                      *)
(* team1_wins + team2_wins + draws = total_matches, for every pair of     *)
(* names, two equal names included.  Stated for the stores in which      *)
(* every goal count is present, where the tallies compare numbers only.   *)
C9_HeadToHeadSum ==
    (call.op = "query_9" /\ ret # None /\ AllGoalsPresent) =>
        ret.team1_wins + ret.team2_wins + ret.draws = ret.total_matches

(* C10: query_9_head_to_head(B, A) is query_9_head_to_head(A, B) with     *)
(* team1/team2 and team1_wins/team2_wins swapped and with draws and       *)
(* total_matches unchanged; one returns no record exactly when the other  *)
(* does.                                                                   *)
C10_SwapSymmetry ==
    call.op = "query_9" =>
        LET swapped == query_9_head_to_head(matches, call.y, call.x)
        IN  /\ (ret = None) <=> (swapped = None)
            /\ ret # None =>
                   /\ swapped.team1 = ret.team2
                   /\ swapped.team2 = ret.team1
                   /\ swapped.team1_wins = ret.team2_wins
                   /\ swapped.team2_wins = ret.team1_wins
                   /\ swapped.draws = ret.draws
                   /\ swapped.total_matches = ret.total_matches

(* two meetings of two different teams, one won by the first name *)
C10_Witness ==
    /\ call.op = "query_9"
    /\ AllGoalsPresent
    /\ ret # None
    /\ call.x # call.y
    /\ ret.total_matches = 2
    /\ ret.team1_wins = 1
    /\ ret.team2_wins = 0
    /\ ret.draws = 1

----------------------------------------------------------------------------
(* The API handlers of the single-record lookups *)

(* A season label written with '/' ("2015/2016"), as the source has it,  *)
(* is a number of Seasons; DashLabel(s) is the label s written with '-'   *)
(* ("2015-2016"), as the path of a URL carries it                         *)
DashLabel(s) == s + NumSeasons

(* season.replace('-', '/') *)
ReplaceDash(season) == IF season > NumSeasons THEN season - NumSeasons ELSE season

(* the rule '/api/team/<team_name>/season/<season>': <season> has the    *)
(* default converter, which takes text without '/', so a path that writes *)
(* the season with '/' matches no rule                                    *)
SeasonMatchesRule(season) == season > NumSeasons

(* get_team_season_stats, as a request reaches it: 404 from the router,   *)
(* the handler not called, for a path that matches no rule; else the      *)
(* season of the path with '-' replaced by '/', and 404 when the lookup   *)
(* returns None; query is the call it made to the query layer             *)
get_team_season_stats(M, team_name, season) ==
    IF ~SeasonMatchesRule(season)
    THEN [status |-> 404, body |-> None, query |-> None]
    ELSE LET record == query_2_team_season_record(M, team_name, ReplaceDash(season))
         IN  IF record = None
             THEN [status |-> 404, body |-> None,
                   query |-> QueryCall("query_2", team_name, ReplaceDash(season))]
             ELSE [status |-> 200, body |-> record,
                   query |-> QueryCall("query_2", team_name, ReplaceDash(season))]

(* get_head_to_head: 400 without both names, 404 when the lookup returns  *)
(* None; query is the call it made to the query layer                     *)
get_head_to_head(M, team1, team2) ==
    IF team1 = Absent \/ team2 = Absent
    THEN [status |-> 400, body |-> None, query |-> None]
    ELSE LET record == query_9_head_to_head(M, team1, team2)
         IN  IF record = None
             THEN [status |-> 404, body |-> None,
                   query |-> QueryCall("query_9", team1, team2)]
             ELSE [status |-> 200, body |-> record,
                   query |-> QueryCall("query_9", team1, team2)]

----------------------------------------------------------------------------
(* the matches of the store, by index, in which two teams are the two     *)
(* opposite sides                                                          *)
MeetingMatches(team1, team2) ==
    {i \in 1..Len(matches) :
        \/ matches[i].home_team_name = team1 /\ matches[i].away_team_name = team2
        \/ matches[i].home_team_name = team2 /\ matches[i].away_team_name = team1}

(* C11: query_9_head_to_head(A, B) counts in total_matches exactly the    *)
(* matches with A and B on opposite sides, in team1_wins those in which   *)
(* A's side scored strictly more, in team2_wins those in which B's side   *)
(* scored strictly more and in draws those with equal goals.  Stated for  *)
(* the stores in which no match has the same team on both sides.          *)
C11_HeadToHeadTallies ==
    (call.op = "query_9" /\ ret # None /\ NoSelfMatches) =>
        LET ms == MeetingMatches(call.x, call.y)
        IN  /\ ret.total_matches = Cardinality(ms)
            /\ ret.team1_wins =
                   Cardinality({i \in ms : OwnSideScoredMore(matches[i], call.x)})
            /\ ret.team2_wins =
                   Cardinality({i \in ms : OwnSideScoredMore(matches[i], call.y)})
            /\ ret.draws = Cardinality({i \in ms : SidesScoredSame(matches[i])})

(* C12: query_2_team_season_record and query_9_head_to_head return no     *)
(* record exactly when no match qualifies, which the API answers with     *)
(* 404: get_team_season_stats for the path that reaches it, which writes  *)
(* the season with '-', and get_head_to_head; a record they return counts *)
(* at least one match.                                                    *)
C12_NotFoundIffNoMatch ==
    /\ call.op = "query_2" =>
           /\ (ret = None) <=> (TeamSeasonMatches(call.x, call.y) = {})
           /\ ret # None => ret.matches_played >= 1
           /\ LET response == get_team_season_stats(matches, call.x, DashLabel(call.y))
              IN  /\ response.query = QueryCall("query_2", call.x, call.y)
                  /\ (response.status = 404) <=> (TeamSeasonMatches(call.x, call.y) = {})
                  /\ response.status # 404 => response.body = ret
    /\ call.op = "query_9" =>
           /\ (ret = None) <=> (MeetingMatches(call.x, call.y) = {})
           /\ ret # None => ret.total_matches >= 1
           /\ (get_head_to_head(matches, call.x, call.y).status = 404)
                  <=> (MeetingMatches(call.x, call.y) = {})

(* a path that writes the season with '/' is answered 404 by the router   *)
(* whatever the store holds, and no lookup is made                        *)
SlashSeasonPathMatchesNoRule ==
    call.op = "query_2" =>
        /\ get_team_season_stats(matches, call.x, call.y).status = 404
        /\ get_team_season_stats(matches, call.x, call.y).query = None

(* a team that plays in the store, asked for a season it did not play *)
C12_Witness ==
    /\ call.op = "query_2"
    /\ ret = None
    /\ \E i \in 1..Len(matches) :
           /\ matches[i].home_team_name = call.x
           /\ matches[i].season # call.y

----------------------------------------------------------------------------
(* query_6_common_scorelines *)

(* what a call gives back: the rows it returns, or the exception it raises *)
Returned(rows) == [raised |-> "", rows |-> rows]
Raised(exception) == [raised |-> exception, rows |-> <<>>]

(* the decimal digits, and the text of a value that is not a string: one  *)
(* character per element                                                   *)
Digits == <<"0", "1", "2", "3", "4", "5", "6", "7", "8", "9">>

(* the null that $toString and $concat give for a null operand *)
NullText == <<"null">>

RECURSIVE ToStringText(_)
(* $toString of a number that is not negative *)
ToStringText(n) ==
    IF n < 10 THEN <<Digits[n + 1]>>
    ELSE ToStringText(n \div 10) \o <<Digits[(n % 10) + 1]>>

(* {'$concat': [{'$toString': h}, ' - ', {'$toString': a}]} *)
ScorelineText(h, a) ==
    IF h = Null \/ a = Null THEN NullText
    ELSE ToStringText(h) \o <<" ", "-", " ">> \o ToStringText(a)

(* the _id of the $group stage, with the two goal counts in one order *)
GroupKey6_Unordered(m) ==
    IF BsonGt(m.home_team_goal, m.away_team_goal)
    THEN [home_goals |-> m.away_team_goal, away_goals |-> m.home_team_goal]
    ELSE [home_goals |-> m.home_team_goal, away_goals |-> m.away_team_goal]

(* the _id of the $group stage *)
GroupKey6(m) == [home_goals |-> m.home_team_goal, away_goals |-> m.away_team_goal]

(* the $group stage: one document per _id; the server fixes no order for *)
(* the groups                                                             *)
Group6(M) ==
    LET keys == Dedup([i \in 1..Len(M) |-> GroupKey6(M[i])])
    IN  Arrangements(
            [k \in 1..Len(keys) |->
                [id    |-> keys[k],
                 count |-> SumSeq([i \in 1..Len(M) |-> Cond(GroupKey6(M[i]) = keys[k])])]])

(* the $project stage *)
Project6(groups) ==
    [k \in 1..Len(groups) |->
        [scoreline   |-> ScorelineText(groups[k].id.home_goals, groups[k].id.away_goals),
         home_goals  |-> groups[k].id.home_goals,
         away_goals  |-> groups[k].id.away_goals,
         occurrences |-> groups[k].count]]

(* {'$sort': {'occurrences': 1}} *)
Sort6_Ascending(rows) ==
    {t \in Arrangements(rows) :
        \A k \in 1..(Len(t) - 1) : t[k].occurrences <= t[k + 1].occurrences}

(* {'$sort': {'occurrences': -1}}: descending; the server fixes no order *)
(* for rows with equal occurrences                                        *)
Sort6(rows) ==
    {t \in Arrangements(rows) :
        \A k \in 1..(Len(t) - 1) : t[k].occurrences >= t[k + 1].occurrences}

(* the $limit stage over a positive limit *)
Limit(rows, limit) == SubSeq(rows, 1, IF limit < Len(rows) THEN limit ELSE Len(rows))

(* the server refuses a pipeline whose $limit is not positive, and         *)
(* aggregate() raises OperationFailure; otherwise the outcomes the call    *)
(* can have, one for each order the stages can give                        *)
query_6_common_scorelines(M, limit) ==
    IF limit <= 0 THEN {Raised("OperationFailure")}
    ELSE {Returned(Limit(sorted, limit)) :
             sorted \in UNION {Sort6(Project6(groups)) : groups \in Group6(M)}}

(* get_common_scorelines: 500 with the message of any exception *)
get_common_scorelines(M, limit) ==
    {IF scorelines.raised # "" THEN [status |-> 500, body |-> scorelines.raised]
     ELSE [status |-> 200, body |-> scorelines.rows] :
        scorelines \in query_6_common_scorelines(M, limit)}

----------------------------------------------------------------------------
(* The scoreline calls on stores whose matches differ in their goal counts *)

Limits == -1..MaxLimit

ScoreDocs ==
    [home_team_name : {1}, away_team_name : {2},
     home_team_goal : (0..ScoreGoal) \cup {Null},
     away_team_goal : (0..ScoreGoal) \cup {Null},
     season : {1}, league_name : {1}]

ScoreStores == UNION {[1..n -> ScoreDocs] : n \in 0..ScoreMatches}

InitScore ==
    /\ matches \in ScoreStores
    /\ players = <<>>
    /\ player_attributes = <<>>
    /\ NoLoad
    /\ call = NoCall
    /\ ret = None

Query6(limit) ==
    /\ call' = [op |-> "query_6", x |-> limit, y |-> 0]
    /\ ret' \in query_6_common_scorelines(matches, limit)
    /\ callers[1].pc \in {"idle", "done"}
    /\ callers' = [callers EXCEPT ![1] = CallerIdle]
    /\ UNCHANGED <<matches, players, player_attributes, source, loader>>

NextScore ==
    \E limit \in Limits : Query6(limit)

SpecScore == InitScore /\ [][NextScore]_vars

----------------------------------------------------------------------------
(* the ordered goal pairs that occur in the store *)
StorePairs ==
    {<<matches[i].home_team_goal, matches[i].away_team_goal>> : i \in 1..Len(matches)}

(* the number of matches of the store with exactly this ordered goal pair *)
PairCount(h, a) ==
    Cardinality({i \in 1..Len(matches) : /\ matches[i].home_team_goal = h
                                         /\ matches[i].away_team_goal = a})

(* the ordered goal pairs of the rows of a scoreline ranking *)
RowPairs(rows) == {<<rows[k].home_goals, rows[k].away_goals>> : k \in 1..Len(rows)}

(* C13: query_6_common_scorelines groups the matches by the exact ordered *)
(* pair (home goals, away goals): one row per distinct pair, each with    *)
(* the number of matches of that pair, and with a limit of at least the   *)
(* number of distinct pairs the occurrences add up to the number of       *)
(* matches in the store.                                                   *)
C13_GroupsByOrderedPair ==
    (call.op = "query_6" /\ ret.raised = "") =>
        /\ \A j, k \in 1..Len(ret.rows) :
               j # k => <<ret.rows[j].home_goals, ret.rows[j].away_goals>>
                        # <<ret.rows[k].home_goals, ret.rows[k].away_goals>>
        /\ \A k \in 1..Len(ret.rows) :
               ret.rows[k].occurrences =
                   PairCount(ret.rows[k].home_goals, ret.rows[k].away_goals)
        /\ call.x >= Cardinality(StorePairs) =>
               /\ RowPairs(ret.rows) = StorePairs
               /\ SumSeq([k \in 1..Len(ret.rows) |-> ret.rows[k].occurrences])
                      = Len(matches)

(* a ranking that holds (2,1) and (1,2) as two rows *)
C13_Witness ==
    /\ call.op = "query_6"
    /\ ret.raised = ""
    /\ Len(matches) = 3
    /\ \E j, k \in 1..Len(ret.rows) :
           /\ ret.rows[j].home_goals = 2 /\ ret.rows[j].away_goals = 1
           /\ ret.rows[j].occurrences = 2
           /\ ret.rows[k].home_goals = 1 /\ ret.rows[k].away_goals = 2

(* C14: query_6_common_scorelines(limit) with limit >= 1 returns          *)
(* min(limit, number of distinct pairs) rows, non-increasing in           *)
(* occurrences, and no omitted pair has strictly more occurrences than a  *)
(* returned pair.                                                          *)
C14_MostFrequentFirst ==
    (call.op = "query_6" /\ call.x >= 1) =>
        /\ ret.raised = ""
        /\ Len(ret.rows) = IF call.x < Cardinality(StorePairs)
                           THEN call.x ELSE Cardinality(StorePairs)
        /\ \A k \in 1..(Len(ret.rows) - 1) :
               ret.rows[k].occurrences >= ret.rows[k + 1].occurrences
        /\ \A pair \in StorePairs \ RowPairs(ret.rows) :
               \A k \in 1..Len(ret.rows) :
                   PairCount(pair[1], pair[2]) <= ret.rows[k].occurrences

(* a ranking cut to one row, whose pair is not the first pair of the store *)
C14_Witness ==
    /\ call.op = "query_6"
    /\ call.x = 1
    /\ AllGoalsPresent
    /\ Len(ret.rows) = 1
    /\ Cardinality(StorePairs) = 2
    /\ ret.rows[1].occurrences = 2
    /\ ret.rows[1].home_goals # matches[1].home_team_goal

(* C15: rows of query_6_common_scorelines with equal occurrences are in   *)
(* ascending order of home goals and then away goals, and a store that    *)
(* holds the same matches in another order gives the same ranking.        *)
(* Stated for the stores in which every goal count is present.            *)
C15_TiesInPairOrder ==
    (call.op = "query_6" /\ ret.raised = "" /\ AllGoalsPresent) =>
        /\ \A k \in 1..(Len(ret.rows) - 1) :
               ret.rows[k].occurrences = ret.rows[k + 1].occurrences =>
                   \/ ret.rows[k].home_goals < ret.rows[k + 1].home_goals
                   \/ /\ ret.rows[k].home_goals = ret.rows[k + 1].home_goals
                      /\ ret.rows[k].away_goals < ret.rows[k + 1].away_goals
        /\ \A p \in Permutations(1..Len(matches)) :
               query_6_common_scorelines(Reordered(matches, p), call.x) = {ret}

(* C16: every row of query_6_common_scorelines carries the scoreline      *)
(* "<home>-<away>" of its own goal counts, with a single hyphen and       *)
(* nothing else between them.  Stated for the stores in which every goal  *)
(* count is present.                                                       *)
C16_ScorelineIsHomeHyphenAway ==
    (call.op = "query_6" /\ ret.raised = "" /\ AllGoalsPresent) =>
        \A k \in 1..Len(ret.rows) :
            ret.rows[k].scoreline =
                ToStringText(ret.rows[k].home_goals) \o <<"-">>
                    \o ToStringText(ret.rows[k].away_goals)

----------------------------------------------------------------------------
(* query_3_top_players_by_rating and query_5_player_attributes_over_time  *)

(* the $lookup stage: every player document with the snapshots of its     *)
(* player_api_id, in the order of the player_attributes collection        *)
Lookup(P, A) ==
    [i \in 1..Len(P) |->
        [player     |-> P[i],
         attributes |-> SelectSeq(A, LAMBDA a : a.player_api_id = P[i].player_api_id)]]

RECURSIVE Unwind(_)
(* the $unwind stage: one document per element of attributes; a player    *)
(* whose attributes array is empty gives none                             *)
Unwind(joined) ==
    IF joined = <<>> THEN <<>>
    ELSE [k \in 1..Len(Head(joined).attributes) |->
             [player |-> Head(joined).player, attributes |-> Head(joined).attributes[k]]]
         \o Unwind(Tail(joined))

RECURSIVE Max3(_)
(* $max: the greatest operand, null when no operand is a number *)
Max3(ratings) ==
    IF ratings = <<>> THEN Null
    ELSE LET rest == Max3(Tail(ratings))
         IN  IF BsonGt(Head(ratings), rest) THEN Head(ratings) ELSE rest

(* the $group stage of query_3: one document per player_api_id, in no    *)
(* order the server fixes; $avg is kept as the sum and the count of the   *)
(* ratings that are numbers                                               *)
Group3(unwound) ==
    LET ids == Dedup([k \in 1..Len(unwound) |-> unwound[k].player.player_api_id])
    IN  Arrangements(
            [g \in 1..Len(ids) |->
                LET docs    == SelectSeq(unwound, LAMBDA d : d.player.player_api_id = ids[g])
                    ratings == [k \in 1..Len(docs) |-> docs[k].attributes.overall_rating]
                IN  [id          |-> ids[g],
                     player_name |-> docs[1].player.player_name,
                     sum         |-> SumSeq([k \in 1..Len(ratings) |-> SumOperand(ratings[k])]),
                     count       |-> SumSeq([k \in 1..Len(ratings) |-> Cond(ratings[k] # Null)]),
                     max_rating  |-> Max3(ratings)]])

(* the order of two $avg values: null, the average of no number, is below *)
(* every number                                                            *)
AvgGt(a, b) ==
    IF a.count = 0 THEN FALSE
    ELSE IF b.count = 0 THEN TRUE
    ELSE a.sum * b.count > b.sum * a.count

(* the pipeline without its $sort stage *)
Sort3_Skipped(groups) == {groups}

(* {'$sort': {'avg_rating': -1}}: descending; the server fixes no order  *)
(* for groups of equal average                                            *)
Sort3(groups) ==
    {t \in Arrangements(groups) :
        \A k \in 1..(Len(t) - 1) : ~AvgGt(t[k + 1], t[k])}

RECURSIVE Pow2Mod(_, _)
(* two to the n-th, modulo m *)
Pow2Mod(n, m) == IF n = 0 THEN 1 % m ELSE (2 * Pow2Mod(n - 1, m)) % m

RECURSIVE Exponent(_, _)
(* the binary exponent of p / q > 0: the e with 2^e <= p / q < 2^(e + 1)  *)
Exponent(p, q) ==
    IF p >= 2 * q THEN Exponent(p, 2 * q) + 1
    ELSE IF p < q THEN Exponent(2 * p, q) - 1
    ELSE 0

(* The average sum / count rounded to a number of decimal places, as a    *)
(* count of units of the last place: 13 is 1.3 for one place.  The        *)
(* average is a double, the one nearest to sum / count, and what is       *)
(* rounded is that double, to the nearest unit.  Only when sum / count is *)
(* half way between two units, k / (2 * 10^places) with k odd, does the   *)
(* double matter: if 5^places divides k the value is a double itself and  *)
(* goes to the even unit; any other such value is not a double, and the   *)
(* unit is the one on the side of the nearest double, which is below      *)
(* sum / count exactly when the remainder of k * 2^(51 - places - e) by   *)
(* 5^places is less than half of 5^places.  To one place 1.15 gives 1.1,  *)
(* 1.05 gives 1.1 and 1.25 gives 1.2; to two places 0.025 gives 0.03 and  *)
(* 0.125 gives 0.12.                                                      *)
RoundDouble(sum, count, places) ==
    LET scale == 10 ^ places
        five  == 5 ^ places
        q == (scale * sum) \div count
        r == (scale * sum) % count
        k == 2 * q + 1
        e == Exponent(sum, count)
        below == 2 * (((k % five) * Pow2Mod(51 - places - e, five)) % five) < five
    IN  IF 2 * r > count THEN q + 1
        ELSE IF 2 * r < count THEN q
        ELSE IF k % five = 0 THEN (IF q % 2 = 0 THEN q ELSE q + 1)
        ELSE IF below THEN q ELSE q + 1

(* {'$round': ['$avg_rating', 1]}, in tenths: the server rounds the       *)
(* double that $avg computed, a tie of that double to the even tenth      *)
RoundTenths(sum, count) == RoundDouble(sum, count, 1)

(* the $project stage of query_3; height, weight and preferred_foot are   *)
(* carried through as they are and left out                               *)
Project3(groups) ==
    [g \in 1..Len(groups) |->
        [player_name |-> groups[g].player_name,
         avg_rating  |-> IF groups[g].count = 0 THEN Null
                         ELSE RoundTenths(groups[g].sum, groups[g].count),
         max_rating  |-> groups[g].max_rating]]

(* match_filter is built from league_name and never used: the pipeline    *)
(* runs on db.players with no stage that reads it.  The outcomes the call *)
(* can have, one for each order the stages can give.                      *)
query_3_top_players_by_rating(P, A, league_name, limit) ==
    LET match_filter == IF league_name # Absent THEN {league_name} ELSE {}
    IN  IF limit <= 0 THEN {Raised("OperationFailure")}
        ELSE {Returned(Project3(Limit(sorted, limit))) :
                 sorted \in UNION {Sort3(groups) : groups \in Group3(Unwind(Lookup(P, A)))}}

(* get_top_players: 500 with the message of any exception *)
get_top_players(P, A, league, limit) ==
    {IF top.raised # "" THEN [status |-> 500, body |-> top.raised]
     ELSE [status |-> 200, body |-> top.rows] :
        top \in query_3_top_players_by_rating(P, A, league, limit)}

(* the $match stage of query_5 *)
Match5(P, player_name) == SelectSeq(P, LAMBDA p : p.player_name = player_name)

(* the $project stage of query_5, reduced to the name, the date and the   *)
(* rating of the snapshot                                                  *)
Project5(unwound) ==
    [k \in 1..Len(unwound) |->
        [player_name    |-> unwound[k].player.player_name,
         date           |-> unwound[k].attributes.date,
         overall_rating |-> unwound[k].attributes.overall_rating]]

(* the pipeline without its $sort stage *)
Sort5_Skipped(points) == {points}

(* {'$sort': {'date': 1}}: ascending, a null date before every date; the *)
(* server fixes no order for points of equal date                         *)
Sort5(points) ==
    {t \in Arrangements(points) :
        \A k \in 1..(Len(t) - 1) : ~BsonLt(t[k + 1].date, t[k].date)}

(* the series a call can return *)
query_5_player_attributes_over_time(P, A, player_name) ==
    Sort5(Project5(Unwind(Lookup(Match5(P, player_name), A))))

----------------------------------------------------------------------------
(* The player calls on stores of players and attribute snapshots *)

Names == 1..NumNames
PlayerIds == 1..NumPlayers

(* db.players: player_api_id is unique; two players may have one name *)
PlayerStores ==
    UNION {{P \in [1..n -> [player_api_id : PlayerIds, player_name : Names]] :
               \A i \in 1..n : P[i].player_api_id = i} : n \in 0..NumPlayers}

(* One document of db.player_attributes, reduced to the fields the        *)
(* queries read; clean_date gives None for a date it cannot parse, and    *)
(* overall_rating is the SQLite value, NULL included                      *)
SnapshotDocs ==
    [player_api_id  : PlayerIds,
     date           : (1..MaxDate) \cup {Null},
     overall_rating : (1..TopRating) \cup {Null}]

SnapshotStores == UNION {[1..n -> SnapshotDocs] : n \in 0..MaxSnapshots}

(* the one match of the store, of league 1 *)
PlayersMatch ==
    [home_team_name |-> 1, away_team_name |-> 2, home_team_goal |-> 1,
     away_team_goal |-> 0, season |-> 1, league_name |-> 1]

InitPlayers ==
    /\ matches = <<PlayersMatch>>
    /\ players \in PlayerStores
    /\ player_attributes \in SnapshotStores
    /\ NoLoad
    /\ call = NoCall
    /\ ret = None

Query3(league_name, limit) ==
    /\ call' = [op |-> "query_3", x |-> league_name, y |-> limit]
    /\ ret' \in query_3_top_players_by_rating(players, player_attributes, league_name, limit)
    /\ callers[1].pc \in {"idle", "done"}
    /\ callers' = [callers EXCEPT ![1] = CallerIdle]
    /\ UNCHANGED <<matches, players, player_attributes, source, loader>>

Query5(player_name) ==
    /\ call' = [op |-> "query_5", x |-> player_name, y |-> 0]
    /\ ret' \in query_5_player_attributes_over_time(players, player_attributes, player_name)
    /\ callers[1].pc \in {"idle", "done"}
    /\ callers' = [callers EXCEPT ![1] = CallerIdle]
    /\ UNCHANGED <<matches, players, player_attributes, source, loader>>

NextPlayers ==
    \/ \E l \in Leagues \cup {Absent}, limit \in 0..NumPlayers : Query3(l, limit)
    \/ \E n \in Names : Query5(n)
    \/ \E limit \in 0..1 : Query6(limit)

SpecPlayers == InitPlayers /\ [][NextPlayers]_vars

----------------------------------------------------------------------------
(* the snapshots of the player at position j of the store *)
SnapshotsOf(j) ==
    {i \in 1..Len(player_attributes) :
        player_attributes[i].player_api_id = players[j].player_api_id}

(* the snapshots of that player that carry a rating *)
RatedSnapshotsOf(j) ==
    {i \in SnapshotsOf(j) : player_attributes[i].overall_rating # Null}

(* the players with at least one snapshot *)
PlayersWithSnapshot == {j \in 1..Len(players) : SnapshotsOf(j) # {}}

RatingSum(j) ==
    SumSeq([i \in 1..Len(player_attributes) |->
               IF i \in RatedSnapshotsOf(j)
               THEN player_attributes[i].overall_rating ELSE 0])

(* player j1 has a strictly higher average rating than player j2; a       *)
(* player with no rating at all has no average and is above nobody        *)
AvgHigher(j1, j2) ==
    /\ RatedSnapshotsOf(j1) # {}
    /\ \/ RatedSnapshotsOf(j2) = {}
       \/ RatingSum(j1) * Cardinality(RatedSnapshotsOf(j2))
              > RatingSum(j2) * Cardinality(RatedSnapshotsOf(j1))

(* the greatest rating over the snapshots of player j, Null if none *)
HighestRating(j) ==
    LET R == {player_attributes[i].overall_rating : i \in RatedSnapshotsOf(j)}
    IN  IF R = {} THEN Null ELSE CHOOSE r \in R : \A r2 \in R : r >= r2

(* C17: with a league filter, query_3_top_players_by_rating returns only  *)
(* players who appeared in a match of that league; so when the store has  *)
(* no match of the named league at all, it returns no player.             *)
C17_LeagueFilterRestricts ==
    ( /\ call.op = "query_3"
      /\ call.x # Absent
      /\ ret.raised = ""
      /\ \A i \in 1..Len(matches) : matches[i].league_name # call.x )
    => ret.rows = <<>>

(* C18: with no league filter and limit >= 1, query_3 returns             *)
(* min(limit, players with a snapshot) entries, each the entry of its own *)
(* player with a snapshot, in non-increasing order of average rating, no  *)
(* omitted player with a snapshot has a strictly higher average than a    *)
(* returned one, and max_rating is the greatest rating over the player's  *)
(* snapshots.                                                              *)
C18_TopPlayersByAverage ==
    (call.op = "query_3" /\ call.x = Absent /\ call.y >= 1) =>
        /\ ret.raised = ""
        /\ Len(ret.rows) = IF call.y < Cardinality(PlayersWithSnapshot)
                           THEN call.y ELSE Cardinality(PlayersWithSnapshot)
        /\ \A k \in 1..(Len(ret.rows) - 1) :
               ~BsonGt(ret.rows[k + 1].avg_rating, ret.rows[k].avg_rating)
        /\ \E f \in [1..Len(ret.rows) -> PlayersWithSnapshot] :
               /\ \A j, k \in 1..Len(ret.rows) : j # k => f[j] # f[k]
               /\ \A k \in 1..Len(ret.rows) :
                      /\ ret.rows[k].player_name = players[f[k]].player_name
                      /\ ret.rows[k].max_rating = HighestRating(f[k])
                      /\ (ret.rows[k].avg_rating = Null) = (RatedSnapshotsOf(f[k]) = {})
               /\ \A k \in 1..(Len(ret.rows) - 1) : ~AvgHigher(f[k + 1], f[k])
               /\ \A q \in PlayersWithSnapshot \ {f[k] : k \in 1..Len(ret.rows)} :
                      \A k \in 1..Len(ret.rows) : ~AvgHigher(q, f[k])

(* two players with snapshots, limit 1, and the second player of the      *)
(* store, who has the higher average, is the one returned                  *)
C18_Witness ==
    /\ call.op = "query_3"
    /\ call.x = Absent
    /\ call.y = 1
    /\ Cardinality(PlayersWithSnapshot) = 2
    /\ AvgHigher(2, 1)
    /\ RatedSnapshotsOf(1) # {}
    /\ Len(ret.rows) = 1
    /\ ret.rows[1].max_rating = HighestRating(2)
    /\ HighestRating(2) > HighestRating(1)

(* C19: a limit <= 0 passed to query_3_top_players_by_rating or to        *)
(* query_6_common_scorelines is rejected as InvalidArgument, and the      *)
(* handler answers it as an input error, not as a failure of the store.   *)
C19_NonPositiveLimitIsInvalidArgument ==
    /\ (call.op = "query_3" /\ call.y <= 0) =>
           /\ ret.raised = "InvalidArgument"
           /\ \A response \in get_top_players(players, player_attributes, call.x, call.y) :
                  response.status = 400
    /\ (call.op = "query_6" /\ call.x <= 0) =>
           /\ ret.raised = "InvalidArgument"
           /\ \A response \in get_common_scorelines(matches, call.x) :
                  response.status = 400

(* the snapshots of the players that have the name of the call *)
SnapshotsOfName ==
    {i \in 1..Len(player_attributes) :
        \E j \in 1..Len(players) :
            /\ players[j].player_name = call.x
            /\ players[j].player_api_id = player_attributes[i].player_api_id}

(* C20: the sequence query_5_player_attributes_over_time(name) returns is *)
(* ascending in the snapshot date, a point without a date before the      *)
(* dated ones, and holds one point for each snapshot of the player of     *)
(* that name and no other point.                                           *)
C20_SeriesAscendingOnePointPerSnapshot ==
    call.op = "query_5" =>
        /\ \A k \in 1..(Len(ret) - 1) : ~BsonLt(ret[k + 1].date, ret[k].date)
        /\ Len(ret) = Cardinality(SnapshotsOfName)
        /\ \E f \in [1..Len(ret) -> SnapshotsOfName] :
               /\ \A j, k \in 1..Len(ret) : j # k => f[j] # f[k]
               /\ \A k \in 1..Len(ret) :
                      /\ ret[k].player_name = call.x
                      /\ ret[k].date = player_attributes[f[k]].date
                      /\ ret[k].overall_rating = player_attributes[f[k]].overall_rating

(* a series of three points whose snapshots are stored latest first *)
C20_Witness ==
    /\ call.op = "query_5"
    /\ Len(ret) = 3
    /\ player_attributes[1].date = 2
    /\ player_attributes[2].date = 1
    /\ player_attributes[3].date = Null
    /\ ret[1].date = Null /\ ret[2].date = 1 /\ ret[3].date = 2

----------------------------------------------------------------------------
(* get_player_info *)

(* find_one(..., sort=[('date', -1)]): a snapshot of the latest date, any *)
(* of them when several have it; None when there is no snapshot           *)
LatestSnapshot(snapshots) ==
    IF snapshots = <<>> THEN {None}
    ELSE {snapshots[i] : i \in {i \in 1..Len(snapshots) :
             \A j \in 1..Len(snapshots) : ~BsonGt(snapshots[j].date, snapshots[i].date)}}

(* get_player_info: 404 when find_one gives no player of that name; else  *)
(* a player of the name (find_one has no sort), the rating of its latest  *)
(* snapshot and the length of the series query_5 returns                  *)
get_player_info(P, A, player_name) ==
    LET found == Match5(P, player_name)
    IN  IF found = <<>> THEN {[status |-> 404, body |-> "Player not found"]}
        ELSE UNION {
                 {[status |-> 200,
                   body   |-> [player_name             |-> player_name,
                               player_api_id           |-> found[i].player_api_id,
                               overall_rating          |->
                                   IF latest_attrs = None THEN Null
                                   ELSE latest_attrs.overall_rating,
                               attribute_history_count |-> Len(attr_history)]] :
                     latest_attrs \in LatestSnapshot(
                         SelectSeq(A, LAMBDA a : a.player_api_id = found[i].player_api_id)),
                     attr_history \in query_5_player_attributes_over_time(P, A, player_name)} :
                 i \in 1..Len(found)}

(* C21: query_5_player_attributes_over_time signals NotFound (None, as    *)
(* the single-record lookups do) exactly when no player has the name, and *)
(* returns the empty sequence for a player who has no snapshot.           *)
C21_UnknownNameIsNotFound ==
    call.op = "query_5" =>
        /\ (ret = None) = (\A j \in 1..Len(players) : players[j].player_name # call.x)
        /\ (/\ \E j \in 1..Len(players) : players[j].player_name = call.x
            /\ SnapshotsOfName = {}) => ret = <<>>

----------------------------------------------------------------------------
(* load_all and load_matches of the data loader *)

(* a classifier that compares the goal counts without looking for an      *)
(* absent one                                                             *)
determine_result_NoUnknown(home_goals, away_goals) ==
    IF home_goals > away_goals THEN "home_win"
    ELSE IF home_goals < away_goals THEN "away_win"
    ELSE "draw"

(* _determine_result *)
determine_result(home_goals, away_goals) ==
    IF home_goals = Null \/ away_goals = Null THEN "unknown"
    ELSE IF home_goals > away_goals THEN "home_win"
    ELSE IF home_goals < away_goals THEN "away_win"
    ELSE "draw"

(* a date text that neither format of clean_date parses *)
BadDate == 0

(* clean_date: None for an empty value and for a text that no format      *)
(* parses, else the date the text denotes                                 *)
clean_date(date_str) ==
    IF date_str = Null \/ date_str = BadDate THEN Null ELSE date_str

(* the document load_matches builds from one row of the SQLite join,      *)
(* reduced to the fields the queries read, the match id and the result    *)
MatchDoc(row) ==
    [match_api_id   |-> row.match_api_id,
     league_name    |-> row.league_name,
     season         |-> row.season,
     home_team_name |-> row.home_team_name,
     away_team_name |-> row.away_team_name,
     date           |-> clean_date(row.date),
     home_team_goal |-> row.home_team_goal,
     away_team_goal |-> row.away_team_goal,
     result         |-> determine_result(row.home_team_goal, row.away_team_goal)]

(* the document load_players builds from one row of Player, reduced to    *)
(* the fields the queries read                                            *)
PlayerDoc(row) ==
    [player_api_id |-> row.player_api_id,
     player_name   |-> row.player_name]

(* the document load_player_attributes builds from one row of             *)
(* Player_Attributes, reduced to the fields the queries read              *)
AttributeDoc(row) ==
    [player_api_id  |-> row.player_api_id,
     date           |-> clean_date(row.date),
     overall_rating |-> row.overall_rating,
     potential      |-> row.potential]

(* load_all drops the collections one by one before it loads anything:    *)
(* players, matches, player_attributes                                    *)
DropPlayers ==
    /\ loader.pc = "idle"
    /\ players' = <<>>
    /\ loader' = [loader EXCEPT !.pc = "drop_matches"]
    /\ UNCHANGED <<matches, player_attributes, source, callers, call, ret>>

DropMatches ==
    /\ loader.pc = "drop_matches"
    /\ matches' = <<>>
    /\ loader' = [loader EXCEPT !.pc = "drop_player_attributes"]
    /\ UNCHANGED <<players, player_attributes, source, callers, call, ret>>

DropPlayerAttributes ==
    /\ loader.pc = "drop_player_attributes"
    /\ player_attributes' = <<>>
    /\ loader' = [loader EXCEPT !.pc = "players"]
    /\ UNCHANGED <<matches, players, source, callers, call, ret>>

(* load_players up to its first write: the documents of the rows of       *)
(* Player are built, and if there is one the collection is emptied with   *)
(* delete_many; with no row the function writes nothing and returns       *)
LoadPlayers ==
    /\ loader.pc = "players"
    /\ LET built == [i \in 1..Len(source.Player) |-> PlayerDoc(source.Player[i])]
       IN  IF built # <<>>
           THEN /\ players' = <<>>
                /\ loader' = [loader EXCEPT !.pc = "insert_players", !.players = built]
           ELSE /\ players' = players
                /\ loader' = [loader EXCEPT !.pc = "rows", !.players = built]
    /\ UNCHANGED <<matches, player_attributes, source, callers, call, ret>>

(* insert_many(players) *)
InsertPlayers ==
    /\ loader.pc = "insert_players"
    /\ players' = players \o loader.players
    /\ loader' = [loader EXCEPT !.pc = "rows"]
    /\ UNCHANGED <<matches, player_attributes, source, callers, call, ret>>

(* one turn of the loop of load_matches: the row becomes a document of    *)
(* the pending batch, and a batch that has reached batch_size is inserted *)
(* and emptied                                                            *)
LoadRow ==
    /\ loader.pc = "rows"
    /\ loader.next <= Len(source.Match)
    /\ LET match    == MatchDoc(source.Match[loader.next])
           appended == Append(loader.matches, match)
       IN  IF Len(appended) >= batch_size
           THEN /\ matches' = matches \o appended
                /\ loader' = [loader EXCEPT !.matches = <<>>,
                                            !.count = loader.count + 1,
                                            !.next = loader.next + 1]
           ELSE /\ matches' = matches
                /\ loader' = [loader EXCEPT !.matches = appended,
                                            !.count = loader.count + 1,
                                            !.next = loader.next + 1]
    /\ UNCHANGED <<players, player_attributes, source, callers, call, ret>>

(* the end of load_matches without the insert of the last batch *)
FinishLoad_NoFlush ==
    /\ loader.pc = "rows"
    /\ loader.next > Len(source.Match)
    /\ loader' = [loader EXCEPT !.pc = "attributes", !.next = 1,
                                !.returned = loader.count]
    /\ UNCHANGED <<matches, players, player_attributes, source, callers, call, ret>>

(* after the loop: a pending batch that is not empty is inserted, and the *)
(* count is returned; load_all goes on to load_player_attributes          *)
FinishLoad ==
    /\ loader.pc = "rows"
    /\ loader.next > Len(source.Match)
    /\ matches' = IF loader.matches # <<>> THEN matches \o loader.matches ELSE matches
    /\ loader' = [loader EXCEPT !.pc = "attributes", !.next = 1,
                                !.returned = loader.count]
    /\ UNCHANGED <<players, player_attributes, source, callers, call, ret>>

(* one turn of the loop of load_player_attributes *)
LoadAttributeRow ==
    /\ loader.pc = "attributes"
    /\ loader.next <= Len(source.Player_Attributes)
    /\ LET attr     == AttributeDoc(source.Player_Attributes[loader.next])
           appended == Append(loader.attributes, attr)
       IN  IF Len(appended) >= batch_size
           THEN /\ player_attributes' = player_attributes \o appended
                /\ loader' = [loader EXCEPT !.attributes = <<>>,
                                            !.next = loader.next + 1]
           ELSE /\ player_attributes' = player_attributes
                /\ loader' = [loader EXCEPT !.attributes = appended,
                                            !.next = loader.next + 1]
    /\ UNCHANGED <<matches, players, source, callers, call, ret>>

(* after the loop of load_player_attributes: a pending batch that is not  *)
(* empty is inserted, and load_all is over                                *)
FinishAttributes ==
    /\ loader.pc = "attributes"
    /\ loader.next > Len(source.Player_Attributes)
    /\ player_attributes' = IF loader.attributes # <<>>
                            THEN player_attributes \o loader.attributes
                            ELSE player_attributes
    /\ loader' = [loader EXCEPT !.pc = "done"]
    /\ UNCHANGED <<matches, players, source, callers, call, ret>>

(* the rows of the SQLite join: match_api_id is the key of the table *)
SourceRows ==
    [match_api_id : 1..MaxRows, league_name : {1}, season : {1}, date : {1},
     home_team_name : {1}, away_team_name : {2},
     home_team_goal : GoalValues, away_team_goal : GoalValues]

MatchTables ==
    UNION {{S \in [1..n -> SourceRows] : \A i \in 1..n : S[i].match_api_id = i} :
              n \in 0..MaxRows}

(* the table Player: no row, or one player *)
PlayerTables == {<<>>, <<[player_api_id |-> 1, player_name |-> 1]>>}

(* the table Player_Attributes: up to a batch and one row, with a date    *)
(* that parses, one that does not and none                                *)
AttributeRows ==
    <<[player_api_id |-> 1, date |-> 1, overall_rating |-> 1, potential |-> TopRating],
      [player_api_id |-> 1, date |-> BadDate, overall_rating |-> TopRating,
       potential |-> Null],
      [player_api_id |-> 1, date |-> Null, overall_rating |-> Null, potential |-> 1]>>

AttributeTables == {SubSeq(AttributeRows, 1, n) : n \in 0..(batch_size + 1)}

(* the SQLite databases: every table Match next to one player and its     *)
(* snapshots, and two matches next to every Player and Player_Attributes  *)
Sources ==
    {[Match |-> S, Player |-> <<[player_api_id |-> 1, player_name |-> 1]>>,
      Player_Attributes |-> AttributeRows] : S \in MatchTables}
    \cup
    {[Match |-> [i \in 1..2 |-> [match_api_id |-> i, league_name |-> 1, season |-> 1,
                                 date |-> IF i = 1 THEN BadDate ELSE Null,
                                 home_team_name |-> 1, away_team_name |-> 2,
                                 home_team_goal |-> 1, away_team_goal |-> 0]],
      Player |-> P, Player_Attributes |-> A] :
        P \in PlayerTables, A \in AttributeTables}

(* the store before the import: empty, or the documents of an earlier one *)
InitLoader ==
    /\ source \in Sources
    /\ \/ /\ matches = <<>>
          /\ players = <<>>
          /\ player_attributes = <<>>
       \/ /\ matches = <<MatchDoc([match_api_id |-> 1, league_name |-> 1, season |-> 1,
                                   date |-> 1, home_team_name |-> 2, away_team_name |-> 1,
                                   home_team_goal |-> 1, away_team_goal |-> 1])>>
          /\ players = <<[player_api_id |-> 2, player_name |-> 2]>>
          /\ player_attributes =
                 <<[player_api_id |-> 2, date |-> 1, overall_rating |-> 1,
                    potential |-> 1]>>
    /\ loader = LoaderIdle
    /\ callers = [c \in Callers |-> CallerIdle]
    /\ call = NoCall
    /\ ret = None

NextLoader ==
    \/ DropPlayers
    \/ DropMatches
    \/ DropPlayerAttributes
    \/ LoadPlayers
    \/ InsertPlayers
    \/ LoadRow
    \/ FinishLoad
    \/ LoadAttributeRow
    \/ FinishAttributes

SpecLoader == InitLoader /\ [][NextLoader]_vars

(* load_matches has returned *)
MatchesLoaded == loader.pc \in {"attributes", "done"}

(* the result the classifier should give for two goal counts *)
Classified(result, home_goals, away_goals) ==
    /\ result \in {"unknown", "home_win", "away_win", "draw"}
    /\ (result = "unknown") = (home_goals = Null \/ away_goals = Null)
    /\ (home_goals # Null /\ away_goals # Null) =>
           /\ (result = "home_win") = (home_goals > away_goals)
           /\ (result = "away_win") = (home_goals < away_goals)
           /\ (result = "draw") = (home_goals = away_goals)

(* C22: _determine_result is total, gives unknown iff a goal count is     *)
(* absent and otherwise home_win, away_win or draw as the home goals are  *)
(* more, fewer or equal; and every document load_matches has built, in    *)
(* the collection or in the pending batch, has the result of its own two  *)
(* goal counts.                                                            *)
C22_ResultIsClassifierOfGoals ==
    /\ \A h, a \in GoalValues : Classified(determine_result(h, a), h, a)
    /\ \A i \in 1..Len(matches) :
           Classified(matches[i].result, matches[i].home_team_goal,
                      matches[i].away_team_goal)
    /\ \A i \in 1..Len(loader.matches) :
           Classified(loader.matches[i].result, loader.matches[i].home_team_goal,
                      loader.matches[i].away_team_goal)

(* a finished import that wrote a document of each of the four results *)
C22_Witness ==
    /\ loader.pc = "done"
    /\ \A r \in {"unknown", "home_win", "away_win", "draw"} :
           \E i \in 1..Len(matches) : matches[i].result = r

(* C30: when load_matches has returned, the collection holds the document *)
(* of every source row exactly once, in row order, nothing that is in the *)
(* pending batch is missing from the collection, and the returned count   *)
(* is the number of source rows; while it runs, the inserted and the      *)
(* pending documents together are the rows read so far.                   *)
C30_EveryRowInsertedOnce ==
    /\ loader.pc = "rows" =>
           /\ loader.count = loader.next - 1
           /\ Len(loader.matches) < batch_size
           /\ LET built == matches \o loader.matches
              IN  /\ Len(built) = loader.count
                  /\ \A i \in 1..Len(built) : built[i].match_api_id = i
    /\ MatchesLoaded =>
           /\ Len(matches) = Len(source.Match)
           /\ \A i \in 1..Len(source.Match) :
                  /\ matches[i].match_api_id = source.Match[i].match_api_id
                  /\ matches[i].home_team_goal = source.Match[i].home_team_goal
                  /\ matches[i].away_team_goal = source.Match[i].away_team_goal
           /\ \A k \in 1..Len(loader.matches) :
                  \E i \in 1..Len(matches) : matches[i] = loader.matches[k]
           /\ loader.returned = Len(source.Match)
           /\ loader.returned = loader.count

(* an import of one full batch and a remainder has returned *)
C30_Witness ==
    /\ MatchesLoaded
    /\ Len(source.Match) = batch_size + 1
    /\ Len(matches) = batch_size + 1
    /\ Len(loader.matches) = 1

----------------------------------------------------------------------------
(* C28: in query_2_team_season_record and query_9_head_to_head a match    *)
(* with an absent goal count is neither a win, a draw nor a loss: the     *)
(* three tallies of a record add up to the number of its matches in which *)
(* both goal counts are present.  Stated for the stores in which no match *)
(* has the same team on both sides.                                       *)
C28_UnknownResultNotTallied ==
    NoSelfMatches =>
        /\ (call.op = "query_2" /\ ret # None) =>
               ret.wins + ret.draws + ret.losses =
                   Cardinality({i \in TeamSeasonMatches(call.x, call.y) :
                                   GoalsPresent(matches[i])})
        /\ (call.op = "query_9" /\ ret # None) =>
               ret.team1_wins + ret.team2_wins + ret.draws =
                   Cardinality({i \in MeetingMatches(call.x, call.y) :
                                   GoalsPresent(matches[i])})

(* the teams that are the home side of a match of the league and season *)
HomeTeamsOf(league_name, season) ==
    {matches[i].home_team_name : i \in LeagueSeasonMatches(league_name, season)}

(* the conditions under which the standings are conserved: every team of  *)
(* the league-season is a home side there, no listed team has a match of  *)
(* the season in another league, and no match has one team on both sides  *)
ClosedLeagueSeason(league_name, season, rows) ==
    /\ \A i \in LeagueSeasonMatches(league_name, season) :
           matches[i].away_team_name \in HomeTeamsOf(league_name, season)
    /\ \A t \in RowTeams(rows) :
           \A i \in TeamSeasonMatches(t, season) : matches[i].league_name = league_name
    /\ NoSelfMatches

(* the sum of one field over the rows of a table *)
SumOfWins(rows) == SumSeq([i \in 1..Len(rows) |-> rows[i].wins])
SumOfLosses(rows) == SumSeq([i \in 1..Len(rows) |-> rows[i].losses])
SumOfDraws(rows) == SumSeq([i \in 1..Len(rows) |-> rows[i].draws])
SumOfGoalsScored(rows) == SumSeq([i \in 1..Len(rows) |-> rows[i].goals_scored])
SumOfGoalsConceded(rows) == SumSeq([i \in 1..Len(rows) |-> rows[i].goals_conceded])

(* C29: in a table of query_8_league_standings over a closed league and   *)
(* season, the wins add up to the losses, the goals scored to the goals   *)
(* conceded, and the number of draws is even.                             *)
C29_StandingsConserved ==
    (call.op = "query_8" /\ ClosedLeagueSeason(call.x, call.y, ret)) =>
        /\ SumOfWins(ret) = SumOfLosses(ret)
        /\ SumOfGoalsScored(ret) = SumOfGoalsConceded(ret)
        /\ SumOfDraws(ret) % 2 = 0

(* a closed table of two rows with a win, a loss and goals in it *)
C29_Witness ==
    /\ call.op = "query_8"
    /\ ClosedLeagueSeason(call.x, call.y, ret)
    /\ AllGoalsPresent
    /\ Len(ret) = 2
    /\ SumOfWins(ret) >= 1
    /\ SumOfGoalsScored(ret) >= 1

----------------------------------------------------------------------------
(* query_1_high_scoring_matches, query_4_avg_goals_per_league and         *)
(* query_7_team_rating_trend                                              *)

(* {'$gte': min_goals} in a $match: a field that is null matches no       *)
(* number                                                                 *)
QueryGte(value, bound) == value # Null /\ value >= bound

(* the $match stage of query_1 *)
Match1(M, team_name, min_goals) ==
    SelectSeq(M, LAMBDA m :
        \/ m.home_team_name = team_name /\ QueryGte(m.home_team_goal, min_goals)
        \/ m.away_team_name = team_name /\ QueryGte(m.away_team_goal, min_goals))

(* the $project stage of query_1 *)
Project1(ms) ==
    [k \in 1..Len(ms) |->
        [date           |-> ms[k].date,
         league_name    |-> ms[k].league_name,
         season         |-> ms[k].season,
         home_team_name |-> ms[k].home_team_name,
         away_team_name |-> ms[k].away_team_name,
         home_team_goal |-> ms[k].home_team_goal,
         away_team_goal |-> ms[k].away_team_goal,
         scoreline      |-> ScorelineText(ms[k].home_team_goal, ms[k].away_team_goal)]]

(* {'$sort': {'date': -1}}: latest first, a null date after every date;   *)
(* the server fixes no order for documents of equal date                  *)
Sort1(docs) ==
    {t \in Arrangements(docs) :
        \A k \in 1..(Len(t) - 1) : ~BsonGt(t[k + 1].date, t[k].date)}

(* the lists a call can return *)
query_1_high_scoring_matches(M, team_name, min_goals) ==
    Sort1(Project1(Match1(M, team_name, min_goals)))

(* {'$round': [..., 2]}, in hundredths: 67 is 0.67.  The server rounds   *)
(* the double that $divide or $avg computed, a tie of that double to the  *)
(* even hundredth                                                         *)
RoundHundredths(sum, count) == RoundDouble(sum, count, 2)

(* {'$add': [home, away]}: null when an operand is null *)
AddGoals(m) ==
    IF m.home_team_goal = Null \/ m.away_team_goal = Null THEN Null
    ELSE m.home_team_goal + m.away_team_goal

(* $avg of a sequence of values rounded to two places: the numbers among  *)
(* them only, null when there is none                                     *)
AvgHundredths(values) ==
    LET count == SumSeq([k \in 1..Len(values) |-> Cond(values[k] # Null)])
        sum   == SumSeq([k \in 1..Len(values) |-> SumOperand(values[k])])
    IN  IF count = 0 THEN Null ELSE RoundHundredths(sum, count)

(* the $group and $project stages of query_4: one document per            *)
(* league_name, in no order the server fixes                              *)
Group4(M) ==
    LET leagues == Dedup([i \in 1..Len(M) |-> M[i].league_name])
    IN  Arrangements(
            [g \in 1..Len(leagues) |->
                LET ms          == SelectSeq(M, LAMBDA m : m.league_name = leagues[g])
                    total_goals == SumSeq([k \in 1..Len(ms) |-> SumOperand(AddGoals(ms[k]))])
                IN  [league_name         |-> leagues[g],
                     total_matches       |-> Len(ms),
                     total_goals         |-> total_goals,
                     avg_goals_per_match |-> RoundHundredths(total_goals, Len(ms)),
                     avg_home_goals      |->
                         AvgHundredths([k \in 1..Len(ms) |-> ms[k].home_team_goal]),
                     avg_away_goals      |->
                         AvgHundredths([k \in 1..Len(ms) |-> ms[k].away_team_goal])]])

(* {'$sort': {'avg_goals_per_match': -1}}; the server fixes no order for *)
(* leagues of equal average                                               *)
Sort4(rows) ==
    {t \in Arrangements(rows) :
        \A k \in 1..(Len(t) - 1) : t[k].avg_goals_per_match >= t[k + 1].avg_goals_per_match}

(* the lists a call can return *)
query_4_avg_goals_per_league(M) == UNION {Sort4(groups) : groups \in Group4(M)}

RECURSIVE SortedSeasons(_)
(* sorted(set(...)) of season labels *)
SortedSeasons(seasons) ==
    IF seasons = {} THEN <<>>
    ELSE LET least == CHOOSE x \in seasons : \A y \in seasons : x <= y
         IN  <<least>> \o SortedSeasons(seasons \ {least})

(* {'date': {'$gte': start_date, '$lte': end_date}} in a $match: a bound  *)
(* that is null matches the null dates only, a bound that is a date the   *)
(* dates only                                                             *)
DateInRange(date, start_date, end_date) ==
    /\ IF start_date = Null THEN date = Null ELSE date # Null /\ date >= start_date
    /\ IF end_date = Null THEN date = Null ELSE date # Null /\ date <= end_date

(* matches.find({'$or': [home, away]}).sort('date', 1), the first read of *)
(* query_7, and sorted(set(...)) of the seasons it gives                  *)
Seasons7(M, team_name) ==
    LET team_matches == SelectSeq(M, LAMBDA m : \/ m.home_team_name = team_name
                                                \/ m.away_team_name = team_name)
    IN  SortedSeasons({team_matches[i].season : i \in 1..Len(team_matches)})

(* matches.find({'season': season}).sort('date', 1), one read: None when  *)
(* the list is empty, else the date of its first and of its last          *)
(* document, which every order the sort can give has the same             *)
SeasonRange7(M, season) ==
    LET season_list == CHOOSE t \in Sort5(SelectSeq(M, LAMBDA m : m.season = season)) : TRUE
    IN  IF season_list = <<>> THEN None
        ELSE [start_date |-> season_list[1].date,
              end_date   |-> season_list[Len(season_list)].date]

(* $avg of the values of a field: the sum and the count of those that are *)
(* numbers                                                                *)
Avg7(values) ==
    [sum   |-> SumSeq([k \in 1..Len(values) |-> SumOperand(values[k])]),
     count |-> SumSeq([k \in 1..Len(values) |-> Cond(values[k] # Null)])]

(* player_attributes.aggregate($match on the date range, $group with _id  *)
(* None), one read: no document when no snapshot is in the range, else    *)
(* one with the two averages                                              *)
SeasonRatings7(A, range) ==
    LET in_range == SelectSeq(A, LAMBDA a :
                        DateInRange(a.date, range.start_date, range.end_date))
    IN  IF in_range = <<>> THEN <<>>
        ELSE <<[avg_overall_rating |->
                    Avg7([k \in 1..Len(in_range) |-> in_range[k].overall_rating]),
                avg_potential      |->
                    Avg7([k \in 1..Len(in_range) |-> in_range[k].potential])]>>

(* round(value, 1) of Python, in tenths: round() gives the tenth nearest *)
(* to the double it is handed, a tie of that double to the even tenth.    *)
(* round(1.15, 1) is 1.1, round(1.05, 1) is 1.1, round(1.25, 1) is 1.2.   *)
PyRoundTenths(sum, count) == RoundDouble(sum, count, 1)

(* the row trend_data.append() adds for one season, or the TypeError      *)
(* round() raises for an average that is None: the average of a field no  *)
(* snapshot in the range has a number in                                  *)
TrendRow7(season, season_ratings) ==
    IF \/ season_ratings[1].avg_overall_rating.count = 0
       \/ season_ratings[1].avg_potential.count = 0
    THEN Raised("TypeError")
    ELSE Returned(<<[season             |-> season,
                     avg_overall_rating |->
                         PyRoundTenths(season_ratings[1].avg_overall_rating.sum,
                                       season_ratings[1].avg_overall_rating.count),
                     avg_potential      |->
                         PyRoundTenths(season_ratings[1].avg_potential.sum,
                                       season_ratings[1].avg_potential.count)]>>)

RECURSIVE Trend7(_, _, _)
(* the loop over the seasons on one content of the store: the rows        *)
(* appended so far, or the exception that ended the call                  *)
Trend7(M, A, seasons) ==
    IF seasons = <<>> THEN Returned(<<>>)
    ELSE LET season == seasons[Len(seasons)]
             before == Trend7(M, A, SubSeq(seasons, 1, Len(seasons) - 1))
             range  == SeasonRange7(M, season)
             season_ratings == SeasonRatings7(A, range)
         IN  IF before.raised # "" THEN before
             ELSE IF range = None THEN before
             ELSE IF season_ratings = <<>> THEN before
             ELSE IF TrendRow7(season, season_ratings).raised # ""
                  THEN TrendRow7(season, season_ratings)
             ELSE Returned(before.rows \o TrendRow7(season, season_ratings).rows)

(* query_7_team_rating_trend when every read of the call meets the same   *)
(* content of the store                                                   *)
query_7_team_rating_trend(M, A, team_name) ==
    Trend7(M, A, Seasons7(M, team_name))

----------------------------------------------------------------------------
(* The handlers of the match routes *)

(* get_league_top_teams when every read of query_8 meets the same content *)
(* of the store: request.args.get('season', '2015/2016')                  *)
get_league_top_teams(M, league_name, season_arg) ==
    LET season == IF season_arg = Absent THEN DefaultSeason ELSE season_arg
    IN  {TopTeamsResponse(league_name, season, standings) :
            standings \in query_8_league_standings(M, league_name, season)}

(* the text of a min_goals parameter that int() does not read: 'abc',     *)
(* '2.5', the empty text                                                  *)
NotANumber == -2

(* request.args.get('min_goals', 3) *)
DefaultMinGoals == 3

(* get_high_scoring_matches.  min_goals_arg is the parameter of the       *)
(* request: a number, NotANumber, or Null when the request has none.      *)
(* int() comes first and its ValueError is answered 500 by the handler's  *)
(* except clause; then 400 without a team; then the query                 *)
get_high_scoring_matches(M, team, min_goals_arg) ==
    IF min_goals_arg = NotANumber
    THEN {[status |-> 500, body |-> [error |-> "ValueError"], query |-> None]}
    ELSE LET min_goals == IF min_goals_arg = Null THEN DefaultMinGoals
                          ELSE min_goals_arg
         IN  IF team = Absent THEN {[status |-> 400, body |-> None, query |-> None]}
             ELSE {[status |-> 200,
                    body   |-> [team |-> team, min_goals |-> min_goals,
                                total_matches |-> Len(found),
                                matches |-> FirstN(found, 20)],
                    query  |-> QueryCall("query_1", team, min_goals)] :
                      found \in query_1_high_scoring_matches(M, team, min_goals)}

(* get_league_standings when every read of query_8 meets the same content *)
(* of the store: 400 without a season                                     *)
get_league_standings(M, league_name, season) ==
    IF season = Absent THEN {[status |-> 400, body |-> None, query |-> None]}
    ELSE {StandingsResponse(league_name, season, standings) :
             standings \in query_8_league_standings(M, league_name, season)}

----------------------------------------------------------------------------
(* The nine queries, and the match routes, on stores with dated matches   *)

DatedDocs ==
    [home_team_name : {1}, away_team_name : {2},
     home_team_goal : {Null, MaxGoal}, away_team_goal : {Null, MaxGoal},
     season : Seasons, league_name : Leagues,
     date : (1..MaxDate) \cup {Null}]

DatedStores == UNION {[1..n -> DatedDocs] : n \in 0..MaxMatches}

(* no player; a player without a snapshot; a player with one snapshot *)
OnePlayer == <<[player_api_id |-> 1, player_name |-> 1]>>
(* the snapshots query_7 reads: date, overall_rating and potential *)
TrendSnapshotDocs ==
    [player_api_id  : {1},
     date           : (1..MaxDate) \cup {Null},
     overall_rating : {Null, TopRating},
     potential      : {Null, TopRating}]

OneSnapshotStores == {<<>>} \cup {<<a>> : a \in TrendSnapshotDocs}

InitAll ==
    /\ matches \in DatedStores
    /\ \/ players = <<>> /\ player_attributes = <<>>
       \/ players = OnePlayer /\ player_attributes \in OneSnapshotStores
    /\ NoLoad
    /\ call = NoCall
    /\ ret = None

Query1(team_name, min_goals) ==
    /\ call' = [op |-> "query_1", x |-> team_name, y |-> min_goals]
    /\ ret' \in query_1_high_scoring_matches(matches, team_name, min_goals)
    /\ callers[1].pc \in {"idle", "done"}
    /\ callers' = [callers EXCEPT ![1] = CallerIdle]
    /\ UNCHANGED <<matches, players, player_attributes, source, loader>>

Query4 ==
    /\ call' = [op |-> "query_4", x |-> 0, y |-> 0]
    /\ ret' \in query_4_avg_goals_per_league(matches)
    /\ callers[1].pc \in {"idle", "done"}
    /\ callers' = [callers EXCEPT ![1] = CallerIdle]
    /\ UNCHANGED <<matches, players, player_attributes, source, loader>>

(* the first read of query_7: the matches of the team, and their seasons *)
StartTrend(c, team_name) ==
    /\ callers[c].pc \in {"idle", "done"}
    /\ callers' = [callers EXCEPT ![c] =
           [CallerIdle EXCEPT !.pc = "seasons", !.op = "query_7",
                              !.team_name = team_name,
                              !.seasons = Seasons7(matches, team_name),
                              !.seen = {matches}]]
    /\ call' = NoCall
    /\ ret' = None
    /\ UNCHANGED <<matches, players, player_attributes, source, loader>>

(* one turn of the loop over the seasons, up to its read of db.matches:   *)
(* with no match of the season in the store the turn ends                 *)
ReadSeason(c) ==
    /\ callers[c].pc = "seasons"
    /\ callers[c].next <= Len(callers[c].seasons)
    /\ LET range == SeasonRange7(matches, callers[c].seasons[callers[c].next])
       IN  callers' = [callers EXCEPT ![c] =
               [callers[c] EXCEPT
                   !.pc = IF range = None THEN "seasons" ELSE "ratings",
                   !.range = range,
                   !.next = IF range = None THEN callers[c].next + 1
                            ELSE callers[c].next,
                   !.seen = callers[c].seen \cup {matches}]]
    /\ UNCHANGED <<matches, players, player_attributes, source, loader, call, ret>>

(* the rest of the turn: the read of db.player_attributes and the row     *)
(* appended to trend_data; the TypeError of round() ends the call         *)
ReadRatings(c) ==
    /\ callers[c].pc = "ratings"
    /\ LET season_ratings == SeasonRatings7(player_attributes, callers[c].range)
           row == TrendRow7(callers[c].seasons[callers[c].next], season_ratings)
           raises == season_ratings # <<>> /\ row.raised # ""
       IN  /\ callers' = [callers EXCEPT ![c] =
                  [callers[c] EXCEPT
                      !.pc = IF raises THEN "done" ELSE "seasons",
                      !.raised = IF raises THEN row.raised ELSE "",
                      !.trend_data = IF season_ratings = <<>> \/ raises
                                     THEN callers[c].trend_data
                                     ELSE callers[c].trend_data \o row.rows,
                      !.next = callers[c].next + 1,
                      !.seen_attributes =
                          callers[c].seen_attributes \cup {player_attributes}]]
           /\ call' = IF raises
                      THEN [op |-> "query_7", x |-> callers[c].team_name, y |-> 0]
                      ELSE call
           /\ ret' = IF raises THEN Raised(row.raised) ELSE ret
    /\ UNCHANGED <<matches, players, player_attributes, source, loader>>

(* after the loop: return trend_data *)
FinishTrend(c) ==
    /\ callers[c].pc = "seasons"
    /\ callers[c].next > Len(callers[c].seasons)
    /\ callers' = [callers EXCEPT ![c] =
           [callers[c] EXCEPT !.pc = "done",
                              !.seen = callers[c].seen \cup {matches}]]
    /\ call' = [op |-> "query_7", x |-> callers[c].team_name, y |-> 0]
    /\ ret' = Returned(callers[c].trend_data)
    /\ UNCHANGED <<matches, players, player_attributes, source, loader>>

NextAll ==
    \/ Query1(1, 1)
    \/ \E s \in Seasons : Query2(1, s)
    \/ Query3(Absent, 1)
    \/ Query4
    \/ Query5(1)
    \/ Query6(1)
    \/ StartTrend(1, 1)
    \/ ReadSeason(1)
    \/ ReadRatings(1)
    \/ FinishTrend(1)
    \/ \E l \in Leagues : StartStandings(1, l, 1)
    \/ ReadRecord(1)
    \/ FinishStandings(1)
    \/ Query9(1, 2)

SpecAll == InitAll /\ [][NextAll]_vars

(* get_league_top_teams up to the first read of query_8: a request        *)
(* without a season takes the default                                     *)
GetLeagueTopTeams(c, league_name, season_arg) ==
    /\ callers[c].pc \in {"idle", "done"}
    /\ LET season == IF season_arg = Absent THEN DefaultSeason ELSE season_arg
       IN  \E teams \in DistinctHomeTeams(matches, league_name, season) :
               callers' = [callers EXCEPT ![c] =
                   [CallerIdle EXCEPT !.pc = "teams", !.op = "query_8",
                                      !.handler = "get_league_top_teams",
                                      !.season_arg = season_arg,
                                      !.league_name = league_name, !.season = season,
                                      !.teams = teams, !.seen = {matches}]]
    /\ call' = NoCall
    /\ ret' = None
    /\ UNCHANGED <<matches, players, player_attributes, source, loader>>

GetHighScoringMatches(team, min_goals) ==
    /\ call' = [op |-> "get_high_scoring_matches", x |-> team, y |-> min_goals]
    /\ ret' \in get_high_scoring_matches(matches, team, min_goals)
    /\ callers[1].pc \in {"idle", "done"}
    /\ callers' = [callers EXCEPT ![1] = CallerIdle]
    /\ UNCHANGED <<matches, players, player_attributes, source, loader>>

(* get_league_standings: 400 without a season, else the handler up to the *)
(* first read of query_8                                                  *)
GetLeagueStandings(c, league_name, season) ==
    /\ callers[c].pc \in {"idle", "done"}
    /\ IF season = Absent
       THEN /\ callers' = [callers EXCEPT ![c] = CallerIdle]
            /\ call' = [op |-> "get_league_standings", x |-> league_name, y |-> season]
            /\ ret' = [status |-> 400, body |-> None, query |-> None]
       ELSE /\ \E teams \in DistinctHomeTeams(matches, league_name, season) :
                   callers' = [callers EXCEPT ![c] =
                       [CallerIdle EXCEPT !.pc = "teams", !.op = "query_8",
                                          !.handler = "get_league_standings",
                                          !.season_arg = season,
                                          !.league_name = league_name,
                                          !.season = season,
                                          !.teams = teams, !.seen = {matches}]]
            /\ call' = NoCall
            /\ ret' = None
    /\ UNCHANGED <<matches, players, player_attributes, source, loader>>

GetHeadToHead(team1, team2) ==
    /\ call' = [op |-> "get_head_to_head", x |-> team1, y |-> team2]
    /\ ret' = get_head_to_head(matches, team1, team2)
    /\ callers[1].pc \in {"idle", "done"}
    /\ callers' = [callers EXCEPT ![1] = CallerIdle]
    /\ UNCHANGED <<matches, players, player_attributes, source, loader>>

InitApi ==
    /\ matches \in DatedStores
    /\ players = <<>>
    /\ player_attributes = <<>>
    /\ NoLoad
    /\ call = NoCall
    /\ ret = None

NextApi ==
    \/ \E l \in Leagues, s \in Seasons \cup {Absent} : GetLeagueTopTeams(1, l, s)
    \/ \E t \in {1, Absent}, g \in {1, Null, NotANumber} : GetHighScoringMatches(t, g)
    \/ \E l \in Leagues, s \in Seasons \cup {Absent} : GetLeagueStandings(1, l, s)
    \/ ReadRecord(1)
    \/ FinishStandings(1)
    \/ \E t1, t2 \in Teams \cup {Absent} : GetHeadToHead(t1, t2)

SpecApi == InitApi /\ [][NextApi]_vars

----------------------------------------------------------------------------
(* query_8_league_standings and query_7_team_rating_trend next to other   *)
(* calls and to the loader                                                *)

(* the rows of an import that runs next to the calls *)
ConcurrentRows ==
    {r \in [match_api_id : 1..ConcurrentMatches, league_name : {1}, season : {1},
            date : {1}, home_team_name : 1..NumTeams, away_team_name : 1..NumTeams,
            home_team_goal : 0..MaxGoal, away_team_goal : 0..MaxGoal] :
        r.home_team_name # r.away_team_name}

(* the databases of an import that runs next to the calls: the matches,  *)
(* one player and one snapshot of it                                      *)
ConcurrentSources ==
    {[Match |-> S, Player |-> <<[player_api_id |-> 1, player_name |-> 1]>>,
      Player_Attributes |-> <<[player_api_id |-> 1, date |-> 1, overall_rating |-> 1,
                               potential |-> 1]>>] :
        S \in UNION {{S \in [1..n -> ConcurrentRows] :
                         \A i \in 1..n : S[i].match_api_id = i} :
                        n \in 0..ConcurrentMatches}}

(* the store before the import: empty, or the two documents of an        *)
(* earlier one                                                            *)
InitConcurrent ==
    /\ source \in ConcurrentSources
    /\ matches \in {<<>>,
                    <<MatchDoc([match_api_id |-> 1, league_name |-> 1, season |-> 1,
                                date |-> 1,
                                home_team_name |-> 1, away_team_name |-> 2,
                                home_team_goal |-> 1, away_team_goal |-> 0]),
                      MatchDoc([match_api_id |-> 2, league_name |-> 1, season |-> 1,
                                date |-> 1,
                                home_team_name |-> 2, away_team_name |-> 1,
                                home_team_goal |-> 1, away_team_goal |-> 1])>>}
    /\ players = <<>>
    /\ player_attributes = <<>>
    /\ loader = LoaderIdle
    /\ callers = [c \in Callers |-> CallerIdle]
    /\ call = NoCall
    /\ ret = None

NextConcurrent ==
    \/ DropPlayers
    \/ DropMatches
    \/ DropPlayerAttributes
    \/ LoadPlayers
    \/ InsertPlayers
    \/ LoadRow
    \/ FinishLoad
    \/ LoadAttributeRow
    \/ FinishAttributes
    \/ \E c \in Callers : StartStandings(c, 1, 1)
    \/ \E c \in Callers : ReadRecord(c)
    \/ \E c \in Callers : FinishStandings(c)
    \/ \E c \in Callers : StartTrend(c, 1)
    \/ \E c \in Callers : ReadSeason(c)
    \/ \E c \in Callers : ReadRatings(c)
    \/ \E c \in Callers : FinishTrend(c)

SpecConcurrent == InitConcurrent /\ [][NextConcurrent]_vars

(* the reads of the call of caller c have met the store as it is now and  *)
(* no other content                                                       *)
OneContent(c) ==
    /\ callers[c].seen \subseteq {matches}
    /\ callers[c].seen_attributes \subseteq {player_attributes}

(* what the query_7 call of caller c has returned or raised *)
TrendResult(c) ==
    IF callers[c].raised # "" THEN Raised(callers[c].raised)
    ELSE Returned(callers[c].trend_data)

(* C24: calls that run side by side on a store that does not change       *)
(* return what they return alone: as long as the reads of a call have met *)
(* one content of the store, the teams and records of a query_8 call are  *)
(* those of query_8_league_standings on that content, and so is the table *)
(* it returns; the seasons and rows of a query_7 call are those of        *)
(* query_7_team_rating_trend on that content, and so is what it returns,  *)
(* whatever the other caller does.                                        *)
C24_ConcurrentCallsIndependent ==
    \A c \in Callers :
        OneContent(c) =>
            /\ (callers[c].op = "query_8" /\ callers[c].pc = "teams") =>
                   /\ callers[c].teams \in
                          DistinctHomeTeams(matches, callers[c].league_name, callers[c].season)
                   /\ callers[c].standings =
                          Records8(matches,
                                   SubSeq(callers[c].teams, 1, callers[c].next - 1),
                                   callers[c].season)
            /\ (callers[c].op = "query_8" /\ callers[c].pc = "done") =>
                   callers[c].standings \in
                       query_8_league_standings(matches, callers[c].league_name,
                                                callers[c].season)
            /\ (callers[c].op = "query_7" /\ callers[c].pc \in {"seasons", "ratings"}) =>
                   /\ callers[c].seasons = Seasons7(matches, callers[c].team_name)
                   /\ Returned(callers[c].trend_data) =
                          Trend7(matches, player_attributes,
                                 SubSeq(callers[c].seasons, 1, callers[c].next - 1))
            /\ (callers[c].op = "query_7" /\ callers[c].pc = "done") =>
                   TrendResult(c) =
                       query_7_team_rating_trend(matches, player_attributes,
                                                 callers[c].team_name)

(* a query_8 call has returned a table of two rows while a query_7 call   *)
(* that has appended a row is in its loop, both on the store as it is     *)
C24_Witness ==
    /\ callers[1].op = "query_8"
    /\ callers[1].pc = "done"
    /\ OneContent(1)
    /\ Len(callers[1].standings) = 2
    /\ callers[2].op = "query_7"
    /\ callers[2].pc = "seasons"
    /\ OneContent(2)
    /\ Len(callers[2].trend_data) = 1

(* the contents the store can have while the loader runs: the documents   *)
(* of the first k source rows, for every k                                *)
LoadedPrefixes ==
    {[i \in 1..k |-> MatchDoc(source.Match[i])] : k \in 0..Len(source.Match)}

(* C27: the table query_8_league_standings returns is the standings of    *)
(* the content the store had at some instant of the call, also when the   *)
(* loader drops the collection or inserts a batch during the call: it is  *)
(* the standings of a content one of its reads met, or of the documents   *)
(* of some number of source rows (the empty store among them).  Stated    *)
(* for the calls whose first read listed every team.                      *)
C27_StandingsOfOneSnapshot ==
    \A c \in Callers :
        (/\ callers[c].op = "query_8"
         /\ callers[c].pc = "done"
         /\ Len(callers[c].teams) = NumTeams) =>
            \E M \in callers[c].seen \cup LoadedPrefixes :
                callers[c].standings \in
                    query_8_league_standings(M, callers[c].league_name, callers[c].season)

----------------------------------------------------------------------------
(* The queries read and never write *)

(* C23: no step of query_1 .. query_9 changes the matches, players or     *)
(* player_attributes collection, and a query called again with the same   *)
(* arguments on the same documents returns the result it returned before  *)
C23_QueriesLeaveStoreUnchanged ==
    [][ /\ matches' = matches
        /\ players' = players
        /\ player_attributes' = player_attributes
        /\ (call.op # "none" /\ call' = call) => ret' = ret ]_vars

(* the part of C23 that holds: no step changes a collection, and a call  *)
(* of query_2, query_7 or query_9, whose result has no rows that can tie  *)
(* in a sort, returns again what it returned                              *)
QueriesWriteNothing ==
    [][ /\ matches' = matches
        /\ players' = players
        /\ player_attributes' = player_attributes
        /\ (call.op \in {"query_2", "query_7", "query_9"} /\ call' = call) =>
               ret' = ret ]_vars

(* on a store that no writer touches, a call made read by read returns    *)
(* what the call on one content of the store returns                      *)
ReadByReadAsOnOneContent ==
    /\ call.op = "query_8" =>
           ret \in query_8_league_standings(matches, call.x, call.y)
    /\ call.op = "query_7" =>
           ret = query_7_team_rating_trend(matches, player_attributes, call.x)
    /\ call.op = "get_league_top_teams" =>
           ret \in get_league_top_teams(matches, call.x, call.y)
    /\ call.op = "get_league_standings" =>
           ret \in get_league_standings(matches, call.x, call.y)
    /\ call.op = "get_high_scoring_matches" =>
           ret \in get_high_scoring_matches(matches, call.x, call.y)

(* no player of the store has a snapshot *)
NoPlayerHasSnapshot ==
    \A j \in 1..Len(players) : \A i \in 1..Len(player_attributes) :
        players[j].player_api_id # player_attributes[i].player_api_id

(* C25: the operations that return a collection return the empty sequence *)
(* when nothing matches: standings of a league and season without a       *)
(* match, scorelines of a store without a match, the rating series of a   *)
(* name without a snapshot, the top players when no player has a snapshot *)
C25_EmptyWhenNothingMatches ==
    /\ (call.op = "query_8" /\ LeagueSeasonMatches(call.x, call.y) = {}) =>
           ret = <<>>
    /\ (call.op = "query_6" /\ call.x >= 1 /\ matches = <<>>) =>
           ret = Returned(<<>>)
    /\ (call.op = "query_5" /\ SnapshotsOfName = {}) =>
           ret = <<>>
    /\ (call.op = "query_3" /\ call.y >= 1 /\ NoPlayerHasSnapshot) =>
           ret = Returned(<<>>)

(* standings were asked of a store that has matches, none of the league   *)
(* and season of the call                                                 *)
C25_Witness ==
    /\ call.op = "query_8"
    /\ matches # <<>>
    /\ LeagueSeasonMatches(call.x, call.y) = {}
    /\ ret = <<>>

----------------------------------------------------------------------------
(* Requests that lack a name *)

(* the request of the call lacks a team or season name its route requires *)
LacksRequiredName ==
    \/ call.op = "get_high_scoring_matches" /\ call.x = Absent
    \/ call.op = "get_league_standings" /\ call.y = Absent
    \/ call.op = "get_league_top_teams" /\ call.y = Absent
    \/ call.op = "get_head_to_head" /\ (call.x = Absent \/ call.y = Absent)

(* the response is InvalidArgument and the handler ran no query *)
Rejected == ret.status = 400 /\ ret.query = None

(* C26: a high-scoring-matches, standings, top-teams or head-to-head      *)
(* request that lacks a required name is answered with InvalidArgument    *)
(* and no query runs; a query that runs has the names of the request      *)
C26_MissingNameIsRejected ==
    call.op \in {"get_high_scoring_matches", "get_league_standings",
                 "get_league_top_teams", "get_head_to_head"} =>
        /\ LacksRequiredName => Rejected
        /\ ret.query # None =>
               /\ ret.query.x = call.x
               /\ call.op # "get_high_scoring_matches" => ret.query.y = call.y

(* the three routes other than top-teams: a request that lacks a name     *)
(* runs no query and is answered 400, or 500 when the handler of the      *)
(* high-scoring matches could not read its min_goals                      *)
MissingNameIsRejectedExceptTopTeams ==
    call.op \in {"get_high_scoring_matches", "get_league_standings",
                 "get_head_to_head"} =>
        /\ LacksRequiredName =>
               /\ ret.query = None
               /\ \/ ret.status = 400
                  \/ /\ call.op = "get_high_scoring_matches"
                     /\ call.y = NotANumber
                     /\ ret.status = 500
        /\ ret.query # None =>
               /\ ret.query.x = call.x
               /\ call.op # "get_high_scoring_matches" => ret.query.y = call.y

====
